---- MODULE Spec2Model ----
(***************************************************************************)
(* A model of the GoldBot lead-booking core (src-tauri/src/main.rs): the   *)
(* action gateway, the inbound conversation state machine, the slot        *)
(* generator and the scheduled-job runner, over the SQLite store.          *)
(*                                                                         *)
(* Time.  An instant is an integer count of clock units since a Monday     *)
(* 00:00:00 UTC; one second is SubsecondsPerSecond units, so that chrono's *)
(* timestamps (Utc::now, to_rfc3339, parse_ts) keep their sub-second part  *)
(* while SQLite's datetime() drops it.  The location's zone is a fixed     *)
(* offset west of UTC (no daylight-saving transitions), and SQLite's       *)
(* 'localtime' is taken to be the same zone.                               *)
(*                                                                         *)
(* Store.  The variable db holds the tables.  db.audit_log holds only the  *)
(* audit rows appended by the most recent command: the log is append-only  *)
(* and no command of the core reads it back.  The created_at columns of    *)
(* appointments and scheduled_jobs, written once and never read, are left  *)
(* out.                                                                    *)
(***************************************************************************)
EXTENDS Integers, Sequences, FiniteSets, TLC

VARIABLES db, now, ret, hist, calls

vars == <<db, now, ret, hist, calls>>

(***************************************************************************)
(* Bounds of the model.                                                    *)
(***************************************************************************)
SubsecondsPerSecond == 2
StartHourUtc == 21
StartMinute == 30
MaxLeads == 2
MaxCommands == 4
MaxTicks == 1
MaxCalls == 2
SeededCommands == 2
MaxWaits == 2
DaySeedOutbound == 3
HourSeedLeads == 26

(***************************************************************************)
(* Program constants.                                                      *)
(***************************************************************************)
BufferMinutes == 10
PerLeadDailyMax == 4
PerLocationHourMax == 100
CooldownHours == 2
StaleHours == 24
SlotMinutes == 30
StrideMinutes == 40
MaxBusinessDays == 3
MaxDayOffset == 14
FollowUpDelaySeconds == 30
ReminderLeadHours == 2
DuplicateWindowDays == 30
IdempotencyMinutes == 10
NextOpenScanDays == 21
NextOpenFallbackHours == 24
SlotLookbackDays == 1
TzWestHours == 5

Null == 0 - 1

Seconds(n) == n * SubsecondsPerSecond
Minutes(n) == Seconds(n * 60)
Hours(n) == Minutes(n * 60)
Days(n) == Hours(n * 24)

\* SQLite datetime(x): 'YYYY-MM-DD HH:MM:SS' in UTC, the fraction of a second dropped.
SqlDatetime(t) == t - (t % SubsecondsPerSecond)

\* chrono with_timezone(&tz): the local wall clock of a UTC instant.
ToLocal(t) == t - Hours(TzWestHours)

\* tz.from_local_datetime(..).with_timezone(&Utc)
FromLocal(t) == t + Hours(TzWestHours)

\* date_naive(): the local calendar day, counted from the epoch's Monday.
DateNaive(local) == local \div Days(1)

\* time(): the local time of day.
TimeOfDay(local) == local % Days(1)

\* weekday(): 1 = Monday .. 7 = Sunday.
WeekdayOf(day) == (day % 7) + 1

\* SQLite date(x, 'localtime').
SqlLocalDate(t) == DateNaive(ToLocal(SqlDatetime(t)))

\* NaiveTime::parse_from_str(s, "%H:%M") of a range bound <<hour, minute>>.
NaiveTimeOf(hm) == Hours(hm[1]) + Minutes(hm[2])

(***************************************************************************)
(* Business hours: weekday (1 = mon .. 7 = sun) -> ordered ranges          *)
(* <<open, close>>, each bound an <<hour, minute>> pair.                   *)
(***************************************************************************)
WeekdayRange == << <<9, 0>>, <<17, 0>> >>

SaturdayRange == << <<10, 0>>, <<14, 0>> >>

default_business_hours == << <<WeekdayRange>>, <<WeekdayRange>>, <<WeekdayRange>>, <<WeekdayRange>>, <<WeekdayRange>>, <<SaturdayRange>>, << >> >>

\* is_business_open with the closing minute counted as open.
is_business_open_through_closing(hours, when_utc) ==
    LET local == ToLocal(when_utc)
        ranges == hours[WeekdayOf(DateNaive(local))]
    IN \E i \in 1..Len(ranges) :
          /\ TimeOfDay(local) >= NaiveTimeOf(ranges[i][1])
          /\ TimeOfDay(local) <= NaiveTimeOf(ranges[i][2])

is_business_open(hours, when_utc) ==
    LET local == ToLocal(when_utc)
        ranges == hours[WeekdayOf(DateNaive(local))]
        current_time == TimeOfDay(local)
    IN \E i \in 1..Len(ranges) :
          /\ current_time >= NaiveTimeOf(ranges[i][1])
          /\ current_time < NaiveTimeOf(ranges[i][2])

RECURSIVE NextOpenScan(_, _, _, _)
NextOpenScan(hours, local, day_offset, i) ==
    IF day_offset >= NextOpenScanDays THEN Null
    ELSE LET day == DateNaive(local) + day_offset
             ranges == hours[WeekdayOf(day)]
         IN IF i > Len(ranges) THEN NextOpenScan(hours, local, day_offset + 1, 1)
            ELSE LET start == NaiveTimeOf(ranges[i][1])
                 IN IF day_offset = 0 /\ start <= TimeOfDay(local)
                    THEN NextOpenScan(hours, local, day_offset, i + 1)
                    ELSE FromLocal(day * Days(1) + start)

next_open_time(hours, from_utc) ==
    LET found == NextOpenScan(hours, ToLocal(from_utc), 0, 1)
    IN IF found = Null THEN from_utc + Hours(NextOpenFallbackHours) ELSE found

(***************************************************************************)
(* Inbound text: a body is a sequence of ASCII codes.                       *)
(***************************************************************************)
IsWhitespace(c) == c \in {9, 10, 11, 12, 13, 32}

RECURSIVE TrimStart(_)
TrimStart(s) == IF s # << >> /\ IsWhitespace(Head(s)) THEN TrimStart(Tail(s)) ELSE s

RECURSIVE TrimEnd(_)
TrimEnd(s) == IF s # << >> /\ IsWhitespace(s[Len(s)]) THEN TrimEnd(SubSeq(s, 1, Len(s) - 1)) ELSE s

Trim(s) == TrimEnd(TrimStart(s))

ToAsciiUppercase(s) == [i \in 1..Len(s) |-> IF s[i] \in 97..122 THEN s[i] - 32 ELSE s[i]]

Normalized(body) == ToAsciiUppercase(Trim(body))

KwStop == <<83, 84, 79, 80>>
KwUnsubscribe == <<85, 78, 83, 85, 66, 83, 67, 82, 73, 66, 69>>
KwYes == <<89, 69, 83>>
KwY == <<89>>
KwOne == <<49>>
KwTwo == <<50>>

(***************************************************************************)
(* Slot generator.                                                         *)
(***************************************************************************)
\* has_appointment_conflict comparing the intervals without the buffer.
has_appointment_conflict_without_buffer(candidate_start, candidate_end, existing) ==
    \E i \in 1..Len(existing) : candidate_start < existing[i][2] /\ existing[i][1] < candidate_end

has_appointment_conflict(candidate_start, candidate_end, existing) ==
    LET candidate_end_with_buffer == candidate_end + Minutes(BufferMinutes)
    IN \E i \in 1..Len(existing) :
          LET existing_end_with_buffer == existing[i][2] + Minutes(BufferMinutes)
          IN /\ candidate_start < existing_end_with_buffer
             /\ existing[i][1] < candidate_end_with_buffer

\* The SELECT of generate_slot_choices with datetime(start_at) >= datetime('now').
ExistingBookings_from_now(d, t) ==
    LET idx == {i \in 1..Len(d.appointments) :
                   /\ d.appointments[i].status = "booked"
                   /\ SqlDatetime(d.appointments[i].start_at) >= SqlDatetime(t)}
        RECURSIVE Collect(_)
        Collect(i) == IF i > Len(d.appointments) THEN << >>
                      ELSE IF i \in idx
                           THEN <<<<d.appointments[i].start_at, d.appointments[i].end_at>>>> \o Collect(i + 1)
                           ELSE Collect(i + 1)
    IN Collect(1)

\* SELECT start_at, end_at FROM appointments WHERE status='booked'
\*   AND datetime(start_at) >= datetime('now', '-1 day')
ExistingBookings(d, t) ==
    LET idx == {i \in 1..Len(d.appointments) :
                   /\ d.appointments[i].status = "booked"
                   /\ SqlDatetime(d.appointments[i].start_at) >= SqlDatetime(t - Days(SlotLookbackDays))}
        RECURSIVE Collect(_)
        Collect(i) == IF i > Len(d.appointments) THEN << >>
                      ELSE IF i \in idx
                           THEN <<<<d.appointments[i].start_at, d.appointments[i].end_at>>>> \o Collect(i + 1)
                           ELSE Collect(i + 1)
    IN Collect(1)

\* The walk of generate_slot_choices: day_offset and business_days_seen are the outer
\* while's counters, r the index of the range in hand, current_minutes its cursor
\* (Null before the range is entered).
RECURSIVE SlotWalk(_, _, _, _, _, _, _, _)
SlotWalk(hours, existing, from_utc, day_offset, business_days_seen, r, current_minutes, slots) ==
    LET day == DateNaive(ToLocal(from_utc)) + day_offset
        ranges == hours[WeekdayOf(day)]
    IN IF r = 0
       THEN IF ~(business_days_seen < MaxBusinessDays /\ day_offset < MaxDayOffset) THEN slots
            ELSE IF ranges # << >>
                 THEN SlotWalk(hours, existing, from_utc, day_offset, business_days_seen + 1, 1, Null, slots)
                 ELSE SlotWalk(hours, existing, from_utc, day_offset + 1, business_days_seen, 0, Null, slots)
       ELSE IF r > Len(ranges)
            THEN SlotWalk(hours, existing, from_utc, day_offset + 1, business_days_seen, 0, Null, slots)
            ELSE LET cur == IF current_minutes = Null
                            THEN ranges[r][1][1] * 60 + ranges[r][1][2]
                            ELSE current_minutes
                     end_minutes == ranges[r][2][1] * 60 + ranges[r][2][2]
                     start_utc == FromLocal(day * Days(1) + Minutes(cur))
                     end_utc == start_utc + Minutes(SlotMinutes)
                 IN IF ~(cur + SlotMinutes <= end_minutes)
                    THEN SlotWalk(hours, existing, from_utc, day_offset, business_days_seen, r + 1, Null, slots)
                    ELSE IF start_utc <= from_utc
                         THEN SlotWalk(hours, existing, from_utc, day_offset, business_days_seen, r, cur + StrideMinutes, slots)
                         ELSE LET pushed == IF ~has_appointment_conflict(start_utc, end_utc, existing)
                                            THEN Append(slots, [start_at |-> start_utc, end_at |-> end_utc])
                                            ELSE slots
                              IN IF Len(pushed) = 2 THEN pushed
                                 ELSE SlotWalk(hours, existing, from_utc, day_offset, business_days_seen, r, cur + StrideMinutes, pushed)

\* generate_slot_choices with no appointment loaded.
generate_slot_choices_ignoring_bookings(d, from_utc, t) ==
    SlotWalk(d.business_hours, << >>, from_utc, 0, 0, 0, Null, << >>)

\* generate_slot_choices examining one business day more.
generate_slot_choices_past_third_day(d, from_utc, t) ==
    SlotWalk(d.business_hours, ExistingBookings(d, t), from_utc, 0, 0 - 1, 0, Null, << >>)

generate_slot_choices(d, from_utc, t) ==
    SlotWalk(d.business_hours, ExistingBookings(d, t), from_utc, 0, 0, 0, Null, << >>)

(***************************************************************************)
(* Store helpers.                                                          *)
(***************************************************************************)
Done(d, v) == [db |-> d, ok |-> TRUE, err |-> "", val |-> v]

Fail(d, e) == [db |-> d, ok |-> FALSE, err |-> e, val |-> Null]

insert_audit(d, action_type, target_type, target_id, request, success, error_message) ==
    [d EXCEPT !.audit_log = Append(@, [action_type |-> action_type, target_type |-> target_type,
                                       target_id |-> target_id, request |-> request,
                                       success |-> success, error_message |-> error_message])]

LeadExists(d, lead_id) == lead_id \in 1..Len(d.leads)

is_kill_switch_enabled(d) == d.kill_switch \in {"true", "1"}

Count(S) == Cardinality(S)

OutboundOfLead(d, lead_id) ==
    {i \in 1..Len(d.messages) :
        /\ d.messages[i].direction = "OUTBOUND"
        /\ d.conversations[d.messages[i].conversation_id].lead_id = lead_id}

NoFlags == [automated |-> FALSE, allow_without_consent |-> FALSE, allow_opted_out_once |-> FALSE, allow_after_reply |-> FALSE, ignore_business_hours |-> FALSE]

OutboundRequest(lead_id, conversation_id, body, flags) ==
    [lead_id |-> lead_id, conversation_id |-> conversation_id, body |-> body, flags |-> flags]

Text(s) == [text |-> s, args |-> << >>]

(***************************************************************************)
(* Action gateway: validators.                                             *)
(***************************************************************************)
\* check_rate_limits without its last step, the conversation's cool-down.
check_rate_limits_without_cooldown(d, lead_id, convo, allow_after_reply, t) ==
    LET per_lead_today == Count({i \in OutboundOfLead(d, lead_id) :
                                    SqlLocalDate(d.messages[i].created_at) = SqlLocalDate(t)})
        per_location_hour == Count({i \in 1..Len(d.messages) :
                                    /\ d.messages[i].direction = "OUTBOUND"
                                    /\ SqlDatetime(d.messages[i].created_at) >= SqlDatetime(t - Hours(1))})
    IN IF per_lead_today >= PerLeadDailyMax THEN "rate limit: max 4 outbound per lead/day"
       ELSE IF per_location_hour >= PerLocationHourMax THEN "rate limit: max 100 outbound per location/hour"
       ELSE ""

\* check_rate_limits without its first query, the per-lead count of the local date.
check_rate_limits_without_daily(d, lead_id, convo, allow_after_reply, t) ==
    LET per_location_hour == Count({i \in 1..Len(d.messages) :
                                    /\ d.messages[i].direction = "OUTBOUND"
                                    /\ SqlDatetime(d.messages[i].created_at) >= SqlDatetime(t - Hours(1))})
        replied_since_last == /\ convo.last_inbound_at # Null
                              /\ allow_after_reply
                              /\ convo.last_inbound_at > convo.last_outbound_at
    IN IF per_location_hour >= PerLocationHourMax THEN "rate limit: max 100 outbound per location/hour"
       ELSE IF /\ convo.last_outbound_at # Null
               /\ t - convo.last_outbound_at < Hours(CooldownHours)
               /\ ~replied_since_last
            THEN "rate limit: minimum 2 hours between outbound unless lead just replied"
            ELSE ""

\* check_rate_limits without its second query, the location's count of the last hour.
check_rate_limits_without_hourly(d, lead_id, convo, allow_after_reply, t) ==
    LET per_lead_today == Count({i \in OutboundOfLead(d, lead_id) :
                                    SqlLocalDate(d.messages[i].created_at) = SqlLocalDate(t)})
        replied_since_last == /\ convo.last_inbound_at # Null
                              /\ allow_after_reply
                              /\ convo.last_inbound_at > convo.last_outbound_at
    IN IF per_lead_today >= PerLeadDailyMax THEN "rate limit: max 4 outbound per lead/day"
       ELSE IF /\ convo.last_outbound_at # Null
               /\ t - convo.last_outbound_at < Hours(CooldownHours)
               /\ ~replied_since_last
            THEN "rate limit: minimum 2 hours between outbound unless lead just replied"
            ELSE ""

check_rate_limits(d, lead_id, convo, allow_after_reply, t) ==
    LET per_lead_today == Count({i \in OutboundOfLead(d, lead_id) :
                                    SqlLocalDate(d.messages[i].created_at) = SqlLocalDate(t)})
        per_location_hour == Count({i \in 1..Len(d.messages) :
                                    /\ d.messages[i].direction = "OUTBOUND"
                                    /\ SqlDatetime(d.messages[i].created_at) >= SqlDatetime(t - Hours(1))})
        replied_since_last == /\ convo.last_inbound_at # Null
                              /\ allow_after_reply
                              /\ convo.last_inbound_at > convo.last_outbound_at
    IN IF per_lead_today >= PerLeadDailyMax THEN "rate limit: max 4 outbound per lead/day"
       ELSE IF per_location_hour >= PerLocationHourMax THEN "rate limit: max 100 outbound per location/hour"
       ELSE IF /\ convo.last_outbound_at # Null
               /\ t - convo.last_outbound_at < Hours(CooldownHours)
               /\ ~replied_since_last
            THEN "rate limit: minimum 2 hours between outbound unless lead just replied"
            ELSE ""

\* validate_outbound with one of its gates taken out: skip names the gate.
OutboundGates(d, req, t, skip) ==
    IF skip # "kill_switch" /\ req.flags.automated /\ is_kill_switch_enabled(d)
    THEN "kill switch is enabled; automated outbound blocked"
    ELSE IF ~LeadExists(d, req.lead_id) THEN "lead not found"
    ELSE LET lead == d.leads[req.lead_id]
             convo == d.conversations[req.lead_id]
         IN IF convo.id # req.conversation_id THEN "conversation_id does not match lead"
            ELSE IF skip # "consent" /\ ~lead.consent /\ ~req.flags.allow_without_consent
                 THEN "consent required before outbound"
            ELSE IF skip # "opt_out" /\ lead.opted_out /\ ~req.flags.allow_opted_out_once
                 THEN "lead is opted out; outbound blocked"
            ELSE IF skip # "business_hours" /\ ~req.flags.ignore_business_hours
                    /\ ~is_business_open(d.business_hours, t)
                 THEN "outside business hours; outbound blocked"
            ELSE check_rate_limits(d, req.lead_id, convo, req.flags.allow_after_reply, t)

validate_outbound_without_business_hours(d, req, t) == OutboundGates(d, req, t, "business_hours")

validate_outbound_without_kill_switch(d, req, t) == OutboundGates(d, req, t, "kill_switch")

validate_outbound_without_consent(d, req, t) == OutboundGates(d, req, t, "consent")

validate_outbound_without_opt_out(d, req, t) == OutboundGates(d, req, t, "opt_out")

\* validate_outbound with the business-hours gate moved ahead of the opt-out gate.
validate_outbound_business_hours_first(d, req, t) ==
    IF req.flags.automated /\ is_kill_switch_enabled(d)
    THEN "kill switch is enabled; automated outbound blocked"
    ELSE IF ~LeadExists(d, req.lead_id) THEN "lead not found"
    ELSE LET lead == d.leads[req.lead_id]
             convo == d.conversations[req.lead_id]
         IN IF convo.id # req.conversation_id THEN "conversation_id does not match lead"
            ELSE IF ~lead.consent /\ ~req.flags.allow_without_consent THEN "consent required before outbound"
            ELSE IF ~req.flags.ignore_business_hours /\ ~is_business_open(d.business_hours, t)
                 THEN "outside business hours; outbound blocked"
            ELSE IF lead.opted_out /\ ~req.flags.allow_opted_out_once THEN "lead is opted out; outbound blocked"
            ELSE check_rate_limits(d, req.lead_id, convo, req.flags.allow_after_reply, t)

validate_outbound(d, req, t) ==
    IF req.flags.automated /\ is_kill_switch_enabled(d)
    THEN "kill switch is enabled; automated outbound blocked"
    ELSE IF ~LeadExists(d, req.lead_id) THEN "lead not found"
    ELSE LET lead == d.leads[req.lead_id]
             convo == d.conversations[req.lead_id]
         IN IF convo.id # req.conversation_id THEN "conversation_id does not match lead"
            ELSE IF ~lead.consent /\ ~req.flags.allow_without_consent THEN "consent required before outbound"
            ELSE IF lead.opted_out /\ ~req.flags.allow_opted_out_once THEN "lead is opted out; outbound blocked"
            ELSE IF ~req.flags.ignore_business_hours /\ ~is_business_open(d.business_hours, t)
                 THEN "outside business hours; outbound blocked"
            ELSE check_rate_limits(d, req.lead_id, convo, req.flags.allow_after_reply, t)

validate_agent_outbound(d, req, t) ==
    IF req.flags.allow_without_consent THEN "agent outbound cannot bypass consent"
    ELSE IF req.flags.allow_opted_out_once THEN "agent outbound cannot bypass opt-out suppression"
    ELSE IF req.flags.ignore_business_hours THEN "agent outbound cannot ignore business hours"
    ELSE IF validate_outbound(d, req, t) # "" THEN validate_outbound(d, req, t)
    ELSE LET duplicate_count == Count({i \in 1..Len(d.messages) :
                                    /\ d.messages[i].conversation_id = req.conversation_id
                                    /\ d.messages[i].direction = "OUTBOUND"
                                    /\ d.messages[i].body = req.body
                                    /\ SqlDatetime(d.messages[i].created_at) >= SqlDatetime(t - Minutes(IdempotencyMinutes))})
         IN IF duplicate_count > 0
            THEN "idempotency block: duplicate outbound body for conversation within 10 minutes"
            ELSE ""

\* The overlap count of validate_appointment.
overlap_count(d, req) ==
    Count({i \in 1..Len(d.appointments) :
              /\ d.appointments[i].status = "booked"
              /\ SqlDatetime(d.appointments[i].start_at) < SqlDatetime(req.end_at + Minutes(BufferMinutes))
              /\ SqlDatetime(d.appointments[i].end_at + Minutes(BufferMinutes)) > SqlDatetime(req.start_at)})

\* validate_appointment without the check of lead.opted_out.
validate_appointment_without_opt_out(d, req) ==
    IF ~LeadExists(d, req.lead_id) THEN "lead not found"
    ELSE IF req.end_at <= req.start_at THEN "appointment end must be after start"
    ELSE IF overlap_count(d, req) > 0 THEN "selected appointment slot is no longer available"
    ELSE ""

validate_appointment(d, req) ==
    IF ~LeadExists(d, req.lead_id) THEN "lead not found"
    ELSE IF d.leads[req.lead_id].opted_out THEN "cannot book appointment for opted-out lead"
    ELSE IF req.end_at <= req.start_at THEN "appointment end must be after start"
    ELSE IF overlap_count(d, req) > 0 THEN "selected appointment slot is no longer available"
    ELSE ""

\* validate_schedule_job without the read of the kill switch.
validate_schedule_job_without_kill_switch(d, req) == ""

validate_schedule_job(d, req) ==
    IF is_kill_switch_enabled(d) THEN "kill switch is enabled; job scheduling blocked" ELSE ""

validate_opt_out(d, req) == IF ~LeadExists(d, req.lead_id) THEN "lead not found" ELSE ""

(***************************************************************************)
(* Action gateway: operations.  Each returns [db, ok, err, val].           *)
(***************************************************************************)
\* The three writes of create_outbound_message after validation.
InsertOutbound(d, req, t) ==
    [d EXCEPT !.messages = Append(@, [conversation_id |-> req.conversation_id, direction |-> "OUTBOUND",
                                      body |-> req.body, status |-> "sent", created_at |-> t,
                                      flags |-> req.flags]),
              !.conversations[req.conversation_id].last_outbound_at = t,
              !.leads[req.lead_id].last_contact_at = t]

create_outbound_message(d, req, t) ==
    LET e == validate_outbound(d, req, t)
    IN IF e # ""
       THEN Fail(insert_audit(d, "create_outbound_message", "conversation", req.conversation_id, req, FALSE, e), e)
       ELSE LET d1 == InsertOutbound(d, req, t)
            IN Done(insert_audit(d1, "create_outbound_message", "conversation", req.conversation_id, req, TRUE, ""), Len(d1.messages))

create_outbound_message_for_agent(d, req, t) ==
    LET e == validate_agent_outbound(d, req, t)
    IN IF e # "" THEN Fail(d, e) ELSE create_outbound_message(d, req, t)

InsertAppointment(d, req, t) ==
    [d EXCEPT !.appointments = Append(@, [lead_id |-> req.lead_id, start_at |-> req.start_at,
                                          end_at |-> req.end_at, status |-> req.status])]

\* create_appointment's UPDATE of the lead without status='booked'.
MarkLeadBooked_without_status(d, lead_id) == [d EXCEPT !.leads[lead_id].next_action_at = Null]

\* create_appointment without its UPDATE of the lead.
MarkLeadBooked_skipped(d, lead_id) == d

MarkLeadBooked(d, lead_id) ==
    [d EXCEPT !.leads[lead_id].status = "booked", !.leads[lead_id].next_action_at = Null]

\* create_appointment running its UPDATE of the lead ahead of validate_appointment.
create_appointment_updating_lead_first(d, req, t) ==
    LET e == validate_appointment(d, req)
        d0 == IF LeadExists(d, req.lead_id) THEN MarkLeadBooked(d, req.lead_id) ELSE d
    IN IF e # ""
       THEN Fail(insert_audit(d0, "create_appointment", "lead", req.lead_id, req, FALSE, e), e)
       ELSE LET d1 == MarkLeadBooked(InsertAppointment(d, req, t), req.lead_id)
            IN Done(insert_audit(d1, "create_appointment", "lead", req.lead_id, req, TRUE, ""), Len(d1.appointments))

create_appointment(d, req, t) ==
    LET e == validate_appointment(d, req)
    IN IF e # ""
       THEN Fail(insert_audit(d, "create_appointment", "lead", req.lead_id, req, FALSE, e), e)
       ELSE LET d1 == MarkLeadBooked(InsertAppointment(d, req, t), req.lead_id)
            IN Done(insert_audit(d1, "create_appointment", "lead", req.lead_id, req, TRUE, ""), Len(d1.appointments))

set_opt_out_keeping_next_action(d, req) ==
    LET e == validate_opt_out(d, req)
    IN IF e # ""
       THEN Fail(insert_audit(d, "set_opt_out", "lead", req.lead_id, req, FALSE, e), e)
       ELSE LET d1 == [d EXCEPT !.leads[req.lead_id].opted_out = TRUE,
                                !.leads[req.lead_id].status = "opted_out"]
            IN Done(insert_audit(d1, "set_opt_out", "lead", req.lead_id, req, TRUE, ""), Null)

set_opt_out(d, req) ==
    LET e == validate_opt_out(d, req)
    IN IF e # ""
       THEN Fail(insert_audit(d, "set_opt_out", "lead", req.lead_id, req, FALSE, e), e)
       ELSE LET d1 == [d EXCEPT !.leads[req.lead_id].opted_out = TRUE,
                                !.leads[req.lead_id].status = "opted_out",
                                !.leads[req.lead_id].next_action_at = Null]
            IN Done(insert_audit(d1, "set_opt_out", "lead", req.lead_id, req, TRUE, ""), Null)

schedule_job(d, req, t) ==
    LET e == validate_schedule_job(d, req)
    IN IF e # ""
       THEN Fail(insert_audit(d, "schedule_job", "scheduled_job", Null, req, FALSE, e), e)
       ELSE LET d1 == [d EXCEPT !.scheduled_jobs = Append(@, [job_type |-> req.job_type, target_id |-> req.target_id,
                                                            execute_at |-> req.execute_at, status |-> "pending",
                                                            payload |-> req.payload])]
            IN Done(insert_audit(d1, "schedule_job", "scheduled_job", Len(d1.scheduled_jobs), req, TRUE, ""), Len(d1.scheduled_jobs))

\* cancel_jobs_on_kill_switch without its WHERE status='pending'.
cancel_jobs_on_kill_switch_any_status(d) ==
    LET changed == Len(d.scheduled_jobs)
        d1 == [d EXCEPT !.scheduled_jobs = [i \in 1..Len(@) |-> [@[i] EXCEPT !.status = "cancelled"]]]
    IN Done(insert_audit(d1, "cancel_jobs_on_kill_switch", "scheduled_job", Null, [scope |-> "all_pending"], TRUE, ""), changed)

cancel_jobs_on_kill_switch(d) ==
    LET changed == Count({i \in 1..Len(d.scheduled_jobs) : d.scheduled_jobs[i].status = "pending"})
        d1 == [d EXCEPT !.scheduled_jobs = [i \in 1..Len(@) |->
                          IF @[i].status = "pending" THEN [@[i] EXCEPT !.status = "cancelled"] ELSE @[i]]]
    IN Done(insert_audit(d1, "cancel_jobs_on_kill_switch", "scheduled_job", Null, [scope |-> "all_pending"], TRUE, ""), changed)

flag_needs_staff_attention(d, lead_id, reason) ==
    insert_audit([d EXCEPT !.leads[lead_id].needs_staff_attention = TRUE],
                 "flag_needs_staff_attention", "lead", lead_id, [reason |-> reason], TRUE, "")

(***************************************************************************)
(* Job payloads: kind says which JSON object payload_json holds.           *)
(*   "follow_up" {lead_id}; "reminder" {lead_id, appointment_id, start_at};*)
(*   "garbage"   text that is no JSON object with a lead_id.               *)
(***************************************************************************)
InitialFollowUpPayload(lead_id) ==
    [kind |-> "follow_up", lead_id |-> lead_id, appointment_id |-> Null, start_at |-> Null]

ReminderPayload(lead_id, appointment_id, start_at) ==
    [kind |-> "reminder", lead_id |-> lead_id, appointment_id |-> appointment_id, start_at |-> start_at]

GarbagePayload == [kind |-> "garbage", lead_id |-> Null, appointment_id |-> Null, start_at |-> Null]

\* serde_json::from_str::<InitialFollowUpPayload>: unknown fields are ignored.
ParsesAsInitialFollowUp(payload) == payload.kind \in {"follow_up", "reminder"}

\* serde_json::from_str::<ReminderPayload>: every field is required.
ParsesAsReminder(payload) == payload.kind = "reminder"

\* local_display: "%a %b %-d at %-I:%M %p" of the local wall clock (minute resolution).
local_display(iso) == ToLocal(iso) \div Minutes(1)

ReplyFlags == [NoFlags EXCEPT !.allow_after_reply = TRUE, !.ignore_business_hours = TRUE]

StopFlags == [ReplyFlags EXCEPT !.allow_without_consent = TRUE, !.allow_opted_out_once = TRUE]

JobFlags == [NoFlags EXCEPT !.automated = TRUE]

execute_initial_follow_up(d, lead_id, t) ==
    IF ~LeadExists(d, lead_id) THEN Fail(d, "lead not found")
    ELSE LET sent == create_outbound_message(d, OutboundRequest(lead_id, d.conversations[lead_id].id,
                         Text("Hi {display_name}, this is {gym_name}. Reply YES to see two available intro session times."),
                         JobFlags), t)
         IN IF ~sent.ok THEN sent
            ELSE Done([sent.db EXCEPT !.leads[lead_id].next_action_at = Null], Null)

execute_appointment_reminder(d, payload, t) ==
    IF ~LeadExists(d, payload.lead_id) THEN Fail(d, "lead not found")
    ELSE LET sent == create_outbound_message(d, OutboundRequest(payload.lead_id, d.conversations[payload.lead_id].id,
                         [text |-> "Reminder {display_name}: your gym appointment is at {local_start}. Reply STOP to opt out.",
                          args |-> <<local_display(payload.start_at)>>],
                         JobFlags), t)
         IN IF ~sent.ok THEN sent ELSE Done(sent.db, Null)

(***************************************************************************)
(* Inbound conversation state machine.  lead and conversation are the rows *)
(* the caller read before it recorded the inbound message.                 *)
(***************************************************************************)
YesPrompt == Text("Reply YES to get the next two available intro session times.")

format_slot_offer(slots) ==
    [text |-> "Choose a time:\n1) {first}\n2) {second}\n\nReply 1 or 2.",
     args |-> <<local_display(slots[1].start_at), local_display(slots[2].start_at)>>]

SetConversation_keeping_slots(d, conversation_id, state, offered_slots, repair_attempts) ==
    [d EXCEPT !.conversations[conversation_id].state = state,
              !.conversations[conversation_id].repair_attempts = repair_attempts]

SetConversation(d, conversation_id, state, offered_slots, repair_attempts) ==
    [d EXCEPT !.conversations[conversation_id].state = state,
              !.conversations[conversation_id].offered_slots = offered_slots,
              !.conversations[conversation_id].repair_attempts = repair_attempts]

\* The state machine leaving leads.status as it was.
SetLeadStatus_skipped(d, lead_id, status) == d

SetLeadStatus(d, lead_id, status) == [d EXCEPT !.leads[lead_id].status = status]

Reply(d, lead, conversation, body, t) ==
    create_outbound_message(d, OutboundRequest(lead.id, conversation.id, body, ReplyFlags), t)

\* handle_time_choice_repair sending the corrective offer before it persists the slots.
handle_time_choice_repair_sending_first(d, lead, conversation, t) ==
    LET attempts == conversation.repair_attempts + 1
        offered == generate_slot_choices(d, t, t)
    IN IF Len(offered) < 2
       THEN LET d1 == flag_needs_staff_attention(d, lead.id, "repair_no_slots")
                sent == Reply(d1, lead, conversation,
                              Text("I couldn't match that response to a slot. A staff member has been flagged to help."), t)
            IN IF ~sent.ok THEN sent ELSE Done(sent.db, Null)
       ELSE LET offer == format_slot_offer(offered)
                body == IF attempts >= 2
                        THEN [text |-> "Please reply with 1 or 2 so I can book your session.\n\n{offer}\n\nI also flagged this conversation for staff follow-up.",
                              args |-> offer.args]
                        ELSE [text |-> "Please reply with 1 or 2 so I can book your session.\n\n{offer}",
                              args |-> offer.args]
                sent == Reply(d, lead, conversation, body, t)
            IN IF ~sent.ok THEN sent
               ELSE Done(SetConversation(IF attempts >= 2
                                         THEN flag_needs_staff_attention(sent.db, lead.id, "repair_attempts_exceeded")
                                         ELSE sent.db,
                                         conversation.id, "awaiting_time_choice", offered, attempts), Null)

handle_time_choice_repair(d, lead, conversation, t) ==
    LET attempts == conversation.repair_attempts + 1
        offered == generate_slot_choices(d, t, t)
    IN IF Len(offered) < 2
       THEN LET d1 == flag_needs_staff_attention(d, lead.id, "repair_no_slots")
                sent == Reply(d1, lead, conversation,
                              Text("I couldn't match that response to a slot. A staff member has been flagged to help."), t)
            IN IF ~sent.ok THEN sent ELSE Done(sent.db, Null)
       ELSE LET offer == format_slot_offer(offered)
                d1 == IF attempts >= 2 THEN flag_needs_staff_attention(d, lead.id, "repair_attempts_exceeded") ELSE d
                body == IF attempts >= 2
                        THEN [text |-> "Please reply with 1 or 2 so I can book your session.\n\n{offer}\n\nI also flagged this conversation for staff follow-up.",
                              args |-> offer.args]
                        ELSE [text |-> "Please reply with 1 or 2 so I can book your session.\n\n{offer}",
                              args |-> offer.args]
                d2 == SetConversation(d1, conversation.id, "awaiting_time_choice", offered, attempts)
                sent == Reply(d2, lead, conversation, body, t)
            IN IF ~sent.ok THEN sent ELSE Done(sent.db, Null)

BookChoice_ignoring_refusal(d, lead, conversation, slot, t) ==
    LET booked == create_appointment(d, [lead_id |-> lead.id, start_at |-> slot.start_at,
                                         end_at |-> slot.end_at, status |-> "booked"], t)
    IN Reply(SetConversation(booked.db, conversation.id, "booked", << >>, 0), lead, conversation,
             [text |-> "Booked. Your intro session is confirmed for {local_slot}. We will send a reminder 2 hours before.",
              args |-> <<local_display(slot.start_at)>>], t)

BookChoice(d, lead, conversation, slot, t) ==
    LET booked == create_appointment(d, [lead_id |-> lead.id, start_at |-> slot.start_at,
                                         end_at |-> slot.end_at, status |-> "booked"], t)
    IN IF ~booked.ok THEN booked
       ELSE LET d1 == SetConversation(booked.db, conversation.id, "booked", << >>, 0)
                sent == Reply(d1, lead, conversation,
                              [text |-> "Booked. Your intro session is confirmed for {local_slot}. We will send a reminder 2 hours before.",
                               args |-> <<local_display(slot.start_at)>>], t)
                reminder_at == slot.start_at - Hours(ReminderLeadHours)
            IN IF ~sent.ok THEN sent
               ELSE IF reminder_at > t
                    THEN Done(schedule_job(sent.db, [job_type |-> "appointment_reminder", target_id |-> booked.val,
                                                     execute_at |-> reminder_at,
                                                     payload |-> ReminderPayload(lead.id, booked.val, slot.start_at)], t).db, Null)
                    ELSE Done(sent.db, Null)

\* process_inbound_state_machine without the test of last_outbound_at ahead of the dispatch.
process_inbound_state_machine_without_stale_reset(d, lead, conversation, inbound_body, t) ==
    LET normalized == Normalized(inbound_body)
    IN IF normalized = KwStop \/ normalized = KwUnsubscribe
       THEN LET opted == set_opt_out(d, [lead_id |-> lead.id, reason |-> "lead sent stop keyword"])
            IN IF ~opted.ok THEN opted
               ELSE LET sent == create_outbound_message(opted.db, OutboundRequest(lead.id, conversation.id,
                                    Text("You are unsubscribed and will receive no more automated messages."), StopFlags), t)
                    IN IF ~sent.ok THEN sent ELSE Done(sent.db, Null)
       ELSE IF lead.opted_out THEN Done(d, Null)
       ELSE IF conversation.state = "awaiting_yes"
       THEN IF normalized = KwYes \/ normalized = KwY
            THEN LET offered == generate_slot_choices(d, t, t)
                 IN IF Len(offered) < 2
                    THEN LET d1 == flag_needs_staff_attention(d, lead.id, "no_slots_available")
                             sent == Reply(d1, lead, conversation,
                                           Text("I couldn't find two matching slots right now. A staff member will follow up shortly."), t)
                         IN IF ~sent.ok THEN sent ELSE Done(sent.db, Null)
                    ELSE LET d1 == SetLeadStatus(SetConversation(d, conversation.id, "awaiting_time_choice", offered, 0),
                                                 lead.id, "awaiting_time_choice")
                             sent == Reply(d1, lead, conversation, format_slot_offer(offered), t)
                         IN IF ~sent.ok THEN sent ELSE Done(sent.db, Null)
            ELSE LET sent == Reply(d, lead, conversation, YesPrompt, t)
                 IN IF ~sent.ok THEN sent ELSE Done(sent.db, Null)
       ELSE IF conversation.state = "awaiting_time_choice"
       THEN LET index == IF normalized = KwOne THEN 1 ELSE 2
            IN IF (normalized = KwOne \/ normalized = KwTwo) /\ index <= Len(conversation.offered_slots)
               THEN BookChoice(d, lead, conversation, conversation.offered_slots[index], t)
               ELSE handle_time_choice_repair(d, lead, conversation, t)
       ELSE IF conversation.state = "booked"
       THEN LET sent == Reply(d, lead, conversation,
                              Text("You're already booked. Reply if you need staff help rescheduling."), t)
            IN IF ~sent.ok THEN sent ELSE Done(sent.db, Null)
       ELSE LET d1 == SetConversation(d, conversation.id, "awaiting_yes", << >>, 0)
                sent == Reply(d1, lead, conversation, YesPrompt, t)
            IN IF ~sent.ok THEN sent ELSE Done(sent.db, Null)

process_inbound_state_machine(d, lead, conversation, inbound_body, t) ==
    LET normalized == Normalized(inbound_body)
    IN IF normalized = KwStop \/ normalized = KwUnsubscribe
       THEN LET opted == set_opt_out(d, [lead_id |-> lead.id, reason |-> "lead sent stop keyword"])
            IN IF ~opted.ok THEN opted
               ELSE LET sent == create_outbound_message(opted.db, OutboundRequest(lead.id, conversation.id,
                                    Text("You are unsubscribed and will receive no more automated messages."), StopFlags), t)
                    IN IF ~sent.ok THEN sent ELSE Done(sent.db, Null)
       ELSE IF lead.opted_out THEN Done(d, Null)
       ELSE IF conversation.last_outbound_at # Null /\ t - conversation.last_outbound_at >= Hours(StaleHours)
       THEN LET sent == Reply(d, lead, conversation, YesPrompt, t)
            IN IF ~sent.ok THEN sent
               ELSE Done(SetLeadStatus(SetConversation(sent.db, conversation.id, "awaiting_yes", << >>, 0),
                                       lead.id, "awaiting_yes"), Null)
       ELSE IF conversation.state = "awaiting_yes"
       THEN IF normalized = KwYes \/ normalized = KwY
            THEN LET offered == generate_slot_choices(d, t, t)
                 IN IF Len(offered) < 2
                    THEN LET d1 == flag_needs_staff_attention(d, lead.id, "no_slots_available")
                             sent == Reply(d1, lead, conversation,
                                           Text("I couldn't find two matching slots right now. A staff member will follow up shortly."), t)
                         IN IF ~sent.ok THEN sent ELSE Done(sent.db, Null)
                    ELSE LET d1 == SetLeadStatus(SetConversation(d, conversation.id, "awaiting_time_choice", offered, 0),
                                                 lead.id, "awaiting_time_choice")
                             sent == Reply(d1, lead, conversation, format_slot_offer(offered), t)
                         IN IF ~sent.ok THEN sent ELSE Done(sent.db, Null)
            ELSE LET sent == Reply(d, lead, conversation, YesPrompt, t)
                 IN IF ~sent.ok THEN sent ELSE Done(sent.db, Null)
       ELSE IF conversation.state = "awaiting_time_choice"
       THEN LET index == IF normalized = KwOne THEN 1 ELSE 2
            IN IF (normalized = KwOne \/ normalized = KwTwo) /\ index <= Len(conversation.offered_slots)
               THEN BookChoice(d, lead, conversation, conversation.offered_slots[index], t)
               ELSE handle_time_choice_repair(d, lead, conversation, t)
       ELSE IF conversation.state = "booked"
       THEN LET sent == Reply(d, lead, conversation,
                              Text("You're already booked. Reply if you need staff help rescheduling."), t)
            IN IF ~sent.ok THEN sent ELSE Done(sent.db, Null)
       ELSE LET d1 == SetConversation(d, conversation.id, "awaiting_yes", << >>, 0)
                sent == Reply(d1, lead, conversation, YesPrompt, t)
            IN IF ~sent.ok THEN sent ELSE Done(sent.db, Null)

(***************************************************************************)
(* Commands.                                                               *)
(***************************************************************************)
\* map_cmd_result and log_command_failure: an error leaves the command as the text
\* "Alert: " followed by err (kept here as err) and is logged to the audit table on
\* a connection of its own.
map_cmd_result(r, action_name) ==
    IF r.ok THEN r
    ELSE [r EXCEPT !.db = insert_audit(r.db, action_name, "command", Null, [action |-> action_name], FALSE, r.err)]

RowWithId(row, id) == [k \in DOMAIN row \cup {"id"} |-> IF k = "id" THEN id ELSE row[k]]

\* simulate_inbound_sms handing the state machine a lead row that reads opted_out = 0.
simulate_inbound_sms_ignoring_opt_out(d, lead_id, body, t) ==
    map_cmd_result(
        IF Trim(body) = << >> THEN Fail(d, "inbound body cannot be empty")
        ELSE IF ~LeadExists(d, lead_id) THEN Fail(d, "lead not found")
        ELSE LET lead == [RowWithId(d.leads[lead_id], lead_id) EXCEPT !.opted_out = FALSE]
                 conversation == d.conversations[lead_id]
                 d1 == [d EXCEPT !.messages = Append(@, [conversation_id |-> conversation.id, direction |-> "INBOUND",
                                                         body |-> Trim(body), status |-> "received", created_at |-> t,
                                                         flags |-> NoFlags]),
                                 !.conversations[conversation.id].last_inbound_at = t,
                                 !.leads[lead_id].last_contact_at = t]
             IN process_inbound_state_machine(d1, lead, conversation, Trim(body), t),
        "simulate_inbound_sms")

simulate_inbound_sms(d, lead_id, body, t) ==
    map_cmd_result(
        IF Trim(body) = << >> THEN Fail(d, "inbound body cannot be empty")
        ELSE IF ~LeadExists(d, lead_id) THEN Fail(d, "lead not found")
        ELSE LET lead == RowWithId(d.leads[lead_id], lead_id)
                 conversation == d.conversations[lead_id]
                 d1 == [d EXCEPT !.messages = Append(@, [conversation_id |-> conversation.id, direction |-> "INBOUND",
                                                         body |-> Trim(body), status |-> "received", created_at |-> t,
                                                         flags |-> NoFlags]),
                                 !.conversations[conversation.id].last_inbound_at = t,
                                 !.leads[lead_id].last_contact_at = t]
             IN process_inbound_state_machine(d1, lead, conversation, Trim(body), t),
        "simulate_inbound_sms")

StartsWithPlus(phone) == phone # << >> /\ Head(phone) = 43

\* create_lead without the SELECT of a lead with the same phone.
create_lead_without_duplicate_check(d, input, t) ==
    map_cmd_result(
        LET phone == Trim(input.phone_e164)
            lead_id == Len(d.leads) + 1
            d1 == [d EXCEPT !.leads = Append(@, [phone_e164 |-> phone, consent |-> input.consent,
                                                 opted_out |-> FALSE, status |-> "awaiting_yes",
                                                 needs_staff_attention |-> FALSE, last_contact_at |-> Null,
                                                 next_action_at |-> Null, created_at |-> t]),
                            !.conversations = Append(@, [id |-> Len(@) + 1, lead_id |-> lead_id, state |-> "awaiting_yes",
                                                         offered_slots |-> << >>, last_inbound_at |-> Null,
                                                         last_outbound_at |-> Null, repair_attempts |-> 0])]
        IN IF ~StartsWithPlus(phone) THEN Fail(d, "phone_e164 must be non-empty and start with '+'")
           ELSE Done(d1, [created |-> TRUE, lead_id |-> lead_id, duplicate_of |-> Null]),
        "create_lead")

\* create_lead scheduling the first follow-up whatever input.consent says.
create_lead_scheduling_without_consent(d, input, t) ==
    map_cmd_result(
        LET phone == Trim(input.phone_e164)
            duplicates == {i \in 1..Len(d.leads) :
                              /\ d.leads[i].phone_e164 = phone
                              /\ SqlDatetime(d.leads[i].created_at) >= SqlDatetime(t - Days(DuplicateWindowDays))}
            \* ORDER BY created_at DESC LIMIT 1
            existing == CHOOSE i \in duplicates : \A j \in duplicates :
                            \/ d.leads[j].created_at < d.leads[i].created_at
                            \/ (d.leads[j].created_at = d.leads[i].created_at /\ j <= i)
        IN IF ~StartsWithPlus(phone) THEN Fail(d, "phone_e164 must be non-empty and start with '+'")
           ELSE IF duplicates # {}
           THEN Done(insert_audit(d, "duplicate_lead_detected", "lead", existing, [phone_e164 |-> phone], TRUE, ""),
                     [created |-> FALSE, lead_id |-> existing, duplicate_of |-> existing])
           ELSE LET lead_id == Len(d.leads) + 1
                    d1 == [d EXCEPT !.leads = Append(@, [phone_e164 |-> phone, consent |-> input.consent,
                                                         opted_out |-> FALSE, status |-> "awaiting_yes",
                                                         needs_staff_attention |-> FALSE, last_contact_at |-> Null,
                                                         next_action_at |-> Null, created_at |-> t]),
                                    !.conversations = Append(@, [id |-> Len(@) + 1, lead_id |-> lead_id, state |-> "awaiting_yes",
                                                                 offered_slots |-> << >>, last_inbound_at |-> Null,
                                                                 last_outbound_at |-> Null, repair_attempts |-> 0])]
                    execute_at_utc == IF is_business_open(d.business_hours, t)
                                      THEN t + Seconds(FollowUpDelaySeconds)
                                      ELSE next_open_time(d.business_hours, t)
                    schedule == schedule_job(d1, [job_type |-> "initial_follow_up", target_id |-> lead_id,
                                                  execute_at |-> execute_at_utc,
                                                  payload |-> InitialFollowUpPayload(lead_id)], t)
                    result == [created |-> TRUE, lead_id |-> lead_id, duplicate_of |-> Null]
                IN IF schedule.ok
                   THEN Done([schedule.db EXCEPT !.leads[lead_id].next_action_at = execute_at_utc], result)
                   ELSE Done(schedule.db, result),
        "create_lead")

create_lead(d, input, t) ==
    map_cmd_result(
        LET phone == Trim(input.phone_e164)
            duplicates == {i \in 1..Len(d.leads) :
                              /\ d.leads[i].phone_e164 = phone
                              /\ SqlDatetime(d.leads[i].created_at) >= SqlDatetime(t - Days(DuplicateWindowDays))}
            \* ORDER BY created_at DESC LIMIT 1
            existing == CHOOSE i \in duplicates : \A j \in duplicates :
                            \/ d.leads[j].created_at < d.leads[i].created_at
                            \/ (d.leads[j].created_at = d.leads[i].created_at /\ j <= i)
        IN IF ~StartsWithPlus(phone) THEN Fail(d, "phone_e164 must be non-empty and start with '+'")
           ELSE IF duplicates # {}
           THEN Done(insert_audit(d, "duplicate_lead_detected", "lead", existing, [phone_e164 |-> phone], TRUE, ""),
                     [created |-> FALSE, lead_id |-> existing, duplicate_of |-> existing])
           ELSE LET lead_id == Len(d.leads) + 1
                    d1 == [d EXCEPT !.leads = Append(@, [phone_e164 |-> phone, consent |-> input.consent,
                                                         opted_out |-> FALSE, status |-> "awaiting_yes",
                                                         needs_staff_attention |-> FALSE, last_contact_at |-> Null,
                                                         next_action_at |-> Null, created_at |-> t]),
                                    !.conversations = Append(@, [id |-> Len(@) + 1, lead_id |-> lead_id, state |-> "awaiting_yes",
                                                                 offered_slots |-> << >>, last_inbound_at |-> Null,
                                                                 last_outbound_at |-> Null, repair_attempts |-> 0])]
                    execute_at_utc == IF is_business_open(d.business_hours, t)
                                      THEN t + Seconds(FollowUpDelaySeconds)
                                      ELSE next_open_time(d.business_hours, t)
                    schedule == schedule_job(d1, [job_type |-> "initial_follow_up", target_id |-> lead_id,
                                                  execute_at |-> execute_at_utc,
                                                  payload |-> InitialFollowUpPayload(lead_id)], t)
                    result == [created |-> TRUE, lead_id |-> lead_id, duplicate_of |-> Null]
                IN IF ~input.consent THEN Done(d1, result)
                   ELSE IF schedule.ok
                        THEN Done([schedule.db EXCEPT !.leads[lead_id].next_action_at = execute_at_utc], result)
                        ELSE Done(schedule.db, result),
        "create_lead")

set_kill_switch(d, enabled, t) ==
    map_cmd_result(
        LET d1 == insert_audit([d EXCEPT !.kill_switch = IF enabled THEN "true" ELSE "false"],
                               "set_kill_switch", "settings", "kill_switch", [enabled |-> enabled], TRUE, "")
        IN IF enabled THEN Done(cancel_jobs_on_kill_switch(d1).db, Null) ELSE Done(d1, Null),
        "set_kill_switch")

\* WHERE status='pending' AND datetime(execute_at) <= datetime('now')
DueJobs(d, t) ==
    {i \in 1..Len(d.scheduled_jobs) :
        /\ d.scheduled_jobs[i].status = "pending"
        /\ SqlDatetime(d.scheduled_jobs[i].execute_at) <= SqlDatetime(t)}

\* ORDER BY datetime(execute_at) ASC; rows equal under the ordering come in rowid order.
RECURSIVE OrderByExecuteAt(_, _)
OrderByExecuteAt(d, ids) ==
    IF ids = {} THEN << >>
    ELSE LET first == CHOOSE i \in ids : \A j \in ids :
                          \/ SqlDatetime(d.scheduled_jobs[i].execute_at) < SqlDatetime(d.scheduled_jobs[j].execute_at)
                          \/ /\ SqlDatetime(d.scheduled_jobs[i].execute_at) = SqlDatetime(d.scheduled_jobs[j].execute_at)
                             /\ i <= j
         IN <<first>> \o OrderByExecuteAt(d, ids \ {first})

SetJobStatus(d, job_id, status) == [d EXCEPT !.scheduled_jobs[job_id].status = status]

\* The for loop of run_due_jobs over the rows selected before the loop started.
RECURSIVE RunJobs(_, _, _, _, _)
RunJobs(d, jobs, k, counts, t) ==
    IF k > Len(jobs) THEN Done(d, counts)
    ELSE LET job_id == jobs[k]
             job == d.scheduled_jobs[job_id]
         IN IF is_kill_switch_enabled(d)
            THEN RunJobs(d, jobs, k + 1, [counts EXCEPT !.skipped = @ + 1], t)
            ELSE IF \/ job.job_type = "initial_follow_up" /\ ~ParsesAsInitialFollowUp(job.payload)
                    \/ job.job_type = "appointment_reminder" /\ ~ParsesAsReminder(job.payload)
                 THEN Fail(d, "payload_json does not parse")
                 ELSE LET run_result ==
                              IF job.job_type = "initial_follow_up"
                              THEN execute_initial_follow_up(d, job.payload.lead_id, t)
                              ELSE IF job.job_type = "appointment_reminder"
                              THEN execute_appointment_reminder(d, job.payload, t)
                              ELSE Fail(d, "unknown job_type")
                      IN IF run_result.ok
                         THEN RunJobs(SetJobStatus(run_result.db, job_id, "completed"), jobs, k + 1,
                                      [counts EXCEPT !.processed = @ + 1], t)
                         ELSE RunJobs(insert_audit(SetJobStatus(run_result.db, job_id, "failed"),
                                                   "run_scheduled_job", "scheduled_job", job_id,
                                                   [job_type |-> job.job_type, target_id |-> job.target_id,
                                                    payload |-> job.payload], FALSE, run_result.err),
                                      jobs, k + 1, [counts EXCEPT !.errors = @ + 1], t)

run_due_jobs(d, t) ==
    map_cmd_result(
        IF is_kill_switch_enabled(d)
        THEN Done(d, [processed |-> 0, skipped |-> Count(DueJobs(d, t)), errors |-> 0])
        ELSE RunJobs(d, OrderByExecuteAt(d, DueJobs(d, t)), 1, [processed |-> 0, skipped |-> 0, errors |-> 0], t),
        "run_due_jobs")

\* agent_execute answers Ok(response) whatever the gateway said: val carries the response.
\* agent_execute ending its closure with `?` on the gateway's answer.
agent_execute_propagating_errors(d, action, t) ==
    LET execution ==
            IF action.action_type = "send_outbound"
            THEN create_outbound_message_for_agent(d, OutboundRequest(action.lead_id, action.conversation_id,
                                                                      action.body, action.flags), t)
            ELSE IF action.action_type = "book_appointment"
            THEN create_appointment(d, [lead_id |-> action.lead_id, start_at |-> action.start_at,
                                        end_at |-> action.end_at, status |-> action.status], t)
            ELSE IF action.action_type = "set_opt_out"
            THEN set_opt_out(d, [lead_id |-> action.lead_id, reason |-> action.reason])
            ELSE schedule_job(d, [job_type |-> action.job_type, target_id |-> action.target_id,
                                  execute_at |-> action.execute_at, payload |-> action.payload], t)
    IN map_cmd_result(IF execution.ok
                      THEN Done(execution.db, [success |-> TRUE, error |-> "", result_json |-> execution.val])
                      ELSE Fail(execution.db, execution.err),
                      "agent_execute")

agent_execute(d, action, t) ==
    LET execution ==
            IF action.action_type = "send_outbound"
            THEN create_outbound_message_for_agent(d, OutboundRequest(action.lead_id, action.conversation_id,
                                                                      action.body, action.flags), t)
            ELSE IF action.action_type = "book_appointment"
            THEN create_appointment(d, [lead_id |-> action.lead_id, start_at |-> action.start_at,
                                        end_at |-> action.end_at, status |-> action.status], t)
            ELSE IF action.action_type = "set_opt_out"
            THEN set_opt_out(d, [lead_id |-> action.lead_id, reason |-> action.reason])
            ELSE schedule_job(d, [job_type |-> action.job_type, target_id |-> action.target_id,
                                  execute_at |-> action.execute_at, payload |-> action.payload], t)
    IN map_cmd_result(Done(execution.db, [success |-> execution.ok, error |-> execution.err,
                                          result_json |-> IF execution.ok THEN execution.val ELSE Null]),
                      "agent_execute")

\* agent_dry_run running the gateway operation instead of its validator.
agent_dry_run_executing(d, action, t) ==
    LET execution == agent_execute(d, action, t)
    IN Done(insert_audit(execution.db, "agent_dry_run", "agent_action", action.action_type, [action |-> action],
                         execution.val.success, execution.val.error),
            [allowed |-> execution.val.success, blocked_reason |-> execution.val.error, normalized |-> action])

\* agent_dry_run: the validator of the action alone, then one audit row; blocked_reason
\* is "" where the code answers None.
agent_dry_run(d, action, t) ==
    LET validation ==
            IF action.action_type = "send_outbound"
            THEN validate_agent_outbound(d, OutboundRequest(action.lead_id, action.conversation_id,
                                                            action.body, action.flags), t)
            ELSE IF action.action_type = "book_appointment"
            THEN validate_appointment(d, [lead_id |-> action.lead_id, start_at |-> action.start_at,
                                          end_at |-> action.end_at, status |-> action.status])
            ELSE IF action.action_type = "set_opt_out"
            THEN validate_opt_out(d, [lead_id |-> action.lead_id, reason |-> action.reason])
            ELSE validate_schedule_job(d, [job_type |-> action.job_type, target_id |-> action.target_id,
                                           execute_at |-> action.execute_at, payload |-> action.payload])
        response == [allowed |-> validation = "", blocked_reason |-> validation, normalized |-> action]
    IN map_cmd_result(Done(insert_audit(d, "agent_dry_run", "agent_action", action.action_type, [action |-> action],
                                        response.allowed, response.blocked_reason),
                           response),
                      "agent_dry_run")

\* initialize_db on a fresh file: the demo location and kill_switch = 'false'.
initialize_db ==
    [kill_switch |-> "false", business_hours |-> default_business_hours,
     leads |-> << >>, conversations |-> << >>, messages |-> << >>,
     appointments |-> << >>, scheduled_jobs |-> << >>, audit_log |-> << >>]

(***************************************************************************)
(* Inputs of the commands.                                                 *)
(***************************************************************************)
\* " +1" (trimmed to "+1"), "+2" and "1" (no leading '+').
Phones == {<<32, 43, 49>>, <<43, 50>>, <<49>>}

\* "yes ", "1", "Stop", "hi" and " " (blank).
Bodies == {<<121, 101, 115, 32>>, <<49>>, <<83, 116, 111, 112>>, <<104, 105>>, <<32>>}

LeadIds == 1..MaxLeads

\* An instant of the epoch's Tuesday on the location's wall clock.
At(hour, minute) == FromLocal(Days(1) + Hours(hour) + Minutes(minute))

\* start_at/end_at pairs an agent proposes: the first generated slot
\* ending half a second late, a window 5 minutes after it, the slot 10 minutes after
\* it, and the first slot again as a cancelled appointment.
AgentBookings ==
    {[window |-> w, status |-> "booked"] :
        w \in {<<At(9, 0), At(9, 30) + 1>>, <<At(9, 35), At(10, 5)>>, <<At(9, 40), At(10, 10)>>}}
    \cup {[window |-> <<At(9, 0), At(9, 30)>>, status |-> "cancelled"]}

\* conversation_id and flags of the sends an agent proposes.
AgentSends ==
    {[conversation_id |-> 1, flags |-> f] :
        f \in {NoFlags, [NoFlags EXCEPT !.automated = TRUE], [NoFlags EXCEPT !.allow_opted_out_once = TRUE],
               [NoFlags EXCEPT !.ignore_business_hours = TRUE]}}
    \cup {[conversation_id |-> 2, flags |-> NoFlags]}

AgentBody == Text("Checking in from the gym.")

AgentJobs(t) ==
    {[job_type |-> "initial_follow_up", target_id |-> l, execute_at |-> t,
      payload |-> InitialFollowUpPayload(l)] : l \in LeadIds}
    \cup {[job_type |-> "appointment_reminder", target_id |-> 1, execute_at |-> t,
           payload |-> ReminderPayload(l, 1, At(9, 0))] : l \in LeadIds}
    \cup {[job_type |-> "unknown", target_id |-> Null, execute_at |-> t, payload |-> GarbagePayload]}

Jumps == {Hours(1), Hours(24)}

(***************************************************************************)
(* The state machine.  now is the wall clock; ret the answer of the most   *)
(* recent command; hist.opted_at[l] the clock at the end of the command    *)
(* that first left lead l opted out (Null while it is not), hist.ticks the *)
(* number of clock jumps, hist.commands the number of commands run; calls  *)
(* the create_appointment calls in flight.                                 *)
(***************************************************************************)
Fresh(d) == [d EXCEPT !.audit_log = << >>]

\* The bounds of the exploration: the leads table and the number of commands run.
Within(d) == Len(d.leads) > Len(db.leads) => Len(d.leads) <= MaxLeads

OptedAt(h, d, t) ==
    [l \in 1..Len(d.leads) |->
        IF l <= Len(h.opted_at) /\ h.opted_at[l] # Null THEN h.opted_at[l]
        ELSE IF d.leads[l].opted_out THEN t ELSE Null]

\* A command ran to its end at clock now with result r; a command that stored a
\* message leaves the clock one unit later.
Step(cmd, req, r) ==
    /\ hist.commands < MaxCommands
    /\ Within(r.db)
    /\ db' = r.db
    /\ now' = IF Len(r.db.messages) > Len(db.messages) THEN now + 1 ELSE now
    /\ ret' = [cmd |-> cmd, req |-> req, ok |-> r.ok, err |-> r.err, val |-> r.val]
    /\ hist' = [hist EXCEPT !.opted_at = OptedAt(hist, r.db, now), !.commands = @ + 1]
    /\ UNCHANGED calls

NoCommand == [cmd |-> "none", req |-> Null, ok |-> TRUE, err |-> "", val |-> Null]

Init ==
    /\ db = initialize_db
    /\ now = Hours(StartHourUtc) + Minutes(StartMinute)
    /\ ret = NoCommand
    /\ hist = [opted_at |-> << >>, commands |-> 0, ticks |-> 0]
    /\ calls = << >>

CreateLead(input) ==
    Step("create_lead", input, create_lead(Fresh(db), input, now))

SimulateInboundSms(lead_id, body) ==
    Step("simulate_inbound_sms", [body |-> body, lead_id |-> lead_id],
         simulate_inbound_sms(Fresh(db), lead_id, body, now))

SetKillSwitch(enabled) ==
    Step("set_kill_switch", [enabled |-> enabled], set_kill_switch(Fresh(db), enabled, now))

RunDueJobs ==
    Step("run_due_jobs", Null, run_due_jobs(Fresh(db), now))

AgentExecute(action) ==
    Step("agent_execute", action, agent_execute(Fresh(db), action, now))

AgentSendOutbound(lead_id, conversation_id, flags) ==
    AgentExecute([body |-> AgentBody, action_type |-> "send_outbound", lead_id |-> lead_id,
                  conversation_id |-> conversation_id, flags |-> flags])

AgentBookAppointment(lead_id, window, status) ==
    AgentExecute([status |-> status, start_at |-> window[1], end_at |-> window[2],
                  action_type |-> "book_appointment", lead_id |-> lead_id])

AgentSetOptOut(lead_id) ==
    AgentExecute([action_type |-> "set_opt_out", lead_id |-> lead_id, reason |-> "agent"])

AgentScheduleJob(job) ==
    AgentExecute([action_type |-> "schedule_job", target_id |-> job.target_id, job_type |-> job.job_type,
                  execute_at |-> job.execute_at, payload |-> job.payload])

\* Time passes between two commands.
Tick(d) ==
    /\ hist.ticks < MaxTicks
    /\ now' = now + d
    /\ hist' = [hist EXCEPT !.ticks = @ + 1]
    /\ UNCHANGED <<db, ret, calls>>

Next ==
    \/ \E phone \in Phones, consent \in BOOLEAN : CreateLead([consent |-> consent, phone_e164 |-> phone])
    \/ \E lead_id \in LeadIds, body \in Bodies : SimulateInboundSms(lead_id, body)
    \/ \E enabled \in BOOLEAN : SetKillSwitch(enabled)
    \/ RunDueJobs
    \/ \E lead_id \in LeadIds, send \in AgentSends :
          AgentSendOutbound(lead_id, send.conversation_id, send.flags)
    \/ \E lead_id \in LeadIds, booking \in AgentBookings :
          AgentBookAppointment(lead_id, booking.window, booking.status)
    \/ \E lead_id \in LeadIds : AgentSetOptOut(lead_id)
    \/ \E job \in AgentJobs(now) : AgentScheduleJob(job)
    \/ \E d \in Jumps : Tick(d)

Spec == Init /\ [][Next]_vars

(***************************************************************************)
(* Stores a longer run has left behind.  A store is replayed from the      *)
(* fresh file by the commands themselves, so it is one the program reaches.*)
(***************************************************************************)
Hi == <<104, 105>>

\* One command of a replay, run at st.now; the clock moves as in Step.
Apply(st, c) ==
    LET d == Fresh(st.db)
        r == IF c.cmd = "create_lead"
             THEN create_lead(d, [phone_e164 |-> c.phone_e164, consent |-> c.consent], st.now)
             ELSE IF c.cmd = "simulate_inbound_sms"
             THEN simulate_inbound_sms(d, c.lead_id, c.body, st.now)
             ELSE agent_execute(d, [action_type |-> "send_outbound", lead_id |-> c.lead_id,
                                    conversation_id |-> c.lead_id, body |-> AgentBody, flags |-> NoFlags], st.now)
    IN [db |-> r.db, now |-> IF Len(r.db.messages) > Len(st.db.messages) THEN st.now + 1 ELSE st.now]

FreshStore == [db |-> initialize_db, now |-> Hours(StartHourUtc) + Minutes(StartMinute)]

\* The commands cmds[lo .. hi] in order, by halves: the first half has run to its
\* end (its clock is read) before the second half starts.
RECURSIVE Replay(_, _, _, _)
Replay(st, cmds, lo, hi) ==
    IF lo > hi THEN st
    ELSE IF lo = hi THEN Apply(st, cmds[lo])
    ELSE LET mid == (lo + hi) \div 2
             half == Replay(st, cmds, lo, mid)
         IN IF half.now >= st.now THEN Replay(half, cmds, mid + 1, hi) ELSE half

Run(cmds) == Replay(FreshStore, cmds, 1, Len(cmds))

NewLead(l) == [cmd |-> "create_lead", phone_e164 |-> <<43, 48 + l>>, consent |-> TRUE]

AgentSend(l) == [cmd |-> "send_outbound", lead_id |-> l]

Inbound(l, body) == [cmd |-> "simulate_inbound_sms", lead_id |-> l, body |-> body]

\* Lead l is created, written to by the agent, and answers n times: n + 1 outbound rows.
RECURSIVE Answers(_, _)
Answers(l, n) == IF n = 0 THEN << >> ELSE <<Inbound(l, Hi)>> \o Answers(l, n - 1)

Chat(l, n) == <<NewLead(l), AgentSend(l)>> \o Answers(l, n)

\* One lead holding DaySeedOutbound outbound rows of the current local date.
DayStore == Run(Chat(1, DaySeedOutbound - 1))

\* Leads 3 .. HourSeedLeads at the daily maximum, lead 2 with one outbound row and
\* lead 1 with two, all within the minute: PerLocationHourMax - 1 rows when
\* HourSeedLeads = 26.
RECURSIVE FullLeads(_)
FullLeads(l) == IF l > HourSeedLeads THEN << >> ELSE Chat(l, PerLeadDailyMax - 1) \o FullLeads(l + 1)

HourStore == Run(Chat(1, 1) \o Chat(2, 0) \o FullLeads(3))

Seeded(st) ==
    /\ db = st.db
    /\ now = st.now
    /\ ret = NoCommand
    /\ hist = [opted_at |-> [l \in 1..Len(st.db.leads) |-> Null],
               commands |-> MaxCommands - SeededCommands, ticks |-> 0]
    /\ calls = << >>

InitDay == Seeded(DayStore)

SpecDay == InitDay /\ [][Next]_vars

InitHour == Seeded(HourStore)

SpecHour == InitHour /\ [][Next]_vars

(***************************************************************************)
(* create_appointment statement by statement.  Every conn.execute and      *)
(* query_row commits on its own; two calls on two connections interleave   *)
(* between statements.  calls[i].pc is the statement call i runs next.     *)
(***************************************************************************)
ConcStore == Run(<<NewLead(1)>>)

ConcRequests ==
    {[status |-> "booked", start_at |-> w[1], end_at |-> w[2], lead_id |-> 1] :
        w \in {<<At(9, 0), At(9, 30)>>, <<At(9, 35), At(10, 5)>>, <<At(9, 40), At(10, 10)>>}}

InitConc == Seeded(ConcStore)

SetCall(i, pc, err) == calls' = [calls EXCEPT ![i].pc = pc, ![i].err = err]

\* agent_execute enters create_appointment on a connection of its own.
Call(req) ==
    /\ Len(calls) < MaxCalls
    /\ calls' = Append(calls, [req |-> req, pc |-> "get_lead", err |-> "", appointment_id |-> Null])
    /\ UNCHANGED <<db, now, ret, hist>>

\* validate_appointment: get_lead, then the checks on the row and on the request.
GetLead(i) ==
    /\ calls[i].pc = "get_lead"
    /\ LET req == calls[i].req
       IN IF ~LeadExists(db, req.lead_id) THEN SetCall(i, "insert_audit", "lead not found")
          ELSE IF db.leads[req.lead_id].opted_out
          THEN SetCall(i, "insert_audit", "cannot book appointment for opted-out lead")
          ELSE IF req.end_at <= req.start_at
          THEN SetCall(i, "insert_audit", "appointment end must be after start")
          ELSE SetCall(i, "overlap_count", "")
    /\ UNCHANGED <<db, now, ret, hist>>

\* validate_appointment: the SELECT COUNT(*) of the overlap check.
OverlapCount(i) ==
    /\ calls[i].pc = "overlap_count"
    /\ IF overlap_count(db, calls[i].req) > 0
       THEN SetCall(i, "insert_audit", "selected appointment slot is no longer available")
       ELSE SetCall(i, "insert", "")
    /\ UNCHANGED <<db, now, ret, hist>>

\* INSERT INTO appointments and last_insert_rowid().
Insert(i) ==
    /\ calls[i].pc = "insert"
    /\ db' = InsertAppointment(db, calls[i].req, now)
    /\ calls' = [calls EXCEPT ![i].pc = "update_lead", ![i].appointment_id = Len(db.appointments) + 1]
    /\ UNCHANGED <<now, ret, hist>>

\* UPDATE leads SET status='booked', next_action_at=NULL.
UpdateLead(i) ==
    /\ calls[i].pc = "update_lead"
    /\ db' = MarkLeadBooked(db, calls[i].req.lead_id)
    /\ SetCall(i, "insert_audit", "")
    /\ UNCHANGED <<now, ret, hist>>

\* The audit row of the call, and its answer.
InsertAudit(i) ==
    /\ calls[i].pc = "insert_audit"
    /\ db' = insert_audit(db, "create_appointment", "lead", calls[i].req.lead_id, calls[i].req,
                          calls[i].err = "", calls[i].err)
    /\ SetCall(i, "returned", calls[i].err)
    /\ ret' = [cmd |-> "agent_execute", req |-> calls[i].req, ok |-> TRUE, err |-> "",
               val |-> [success |-> calls[i].err = "", error |-> calls[i].err,
                        result_json |-> IF calls[i].err = "" THEN calls[i].appointment_id ELSE Null]]
    /\ UNCHANGED <<now, hist>>

NextConc ==
    \/ \E req \in ConcRequests : Call(req)
    \/ \E i \in 1..Len(calls) : GetLead(i)
    \/ \E i \in 1..Len(calls) : OverlapCount(i)
    \/ \E i \in 1..Len(calls) : Insert(i)
    \/ \E i \in 1..Len(calls) : UpdateLead(i)
    \/ \E i \in 1..Len(calls) : InsertAudit(i)

SpecConc == InitConc /\ [][NextConc]_vars

(***************************************************************************)
(* Leads over months: create_lead calls with waits around the duplicate     *)
(* window between them.                                                    *)
(***************************************************************************)
Waits == {1, Days(DuplicateWindowDays) - 1, Days(DuplicateWindowDays), Days(DuplicateWindowDays) + 1}

Wait(d) ==
    /\ hist.ticks < MaxWaits
    /\ now' = now + d
    /\ hist' = [hist EXCEPT !.ticks = @ + 1]
    /\ UNCHANGED <<db, ret, calls>>

NextLead ==
    \/ \E phone \in Phones, consent \in BOOLEAN : CreateLead([consent |-> consent, phone_e164 |-> phone])
    \/ \E d \in Waits : Wait(d)

SpecLead == Init /\ [][NextLead]_vars

(***************************************************************************)
(* Overlapping agent sends: two agent_execute(send_outbound) calls for the *)
(* same conversation and body, each on a connection of its own, every      *)
(* statement committed as it runs.  simulate_inbound_sms may run between    *)
(* their statements.                                                       *)
(***************************************************************************)
SendRequests ==
    {[body |-> AgentBody, action_type |-> "send_outbound", lead_id |-> 1, conversation_id |-> 1, flags |-> f] :
        f \in {NoFlags, [NoFlags EXCEPT !.allow_after_reply = TRUE]}}

SendRequestOf(i) ==
    OutboundRequest(calls[i].req.lead_id, calls[i].req.conversation_id, calls[i].req.body, calls[i].req.flags)

Returned(i) == calls[i].pc = "returned"

\* The answer of agent_execute for call i.
AgentAnswer(i, err) ==
    ret' = [cmd |-> "agent_execute", req |-> calls[i].req, ok |-> TRUE, err |-> "",
            val |-> [success |-> err = "", error |-> err,
                     result_json |-> IF err = "" THEN calls[i].message_id ELSE Null]]

\* agent_execute enters create_outbound_message_for_agent; alone records that every
\* earlier call had returned by then.
SendCall(req) ==
    /\ Len(calls) < MaxCalls
    /\ calls' = Append(calls, [req |-> req, pc |-> "validate_agent_outbound", err |-> "",
                               alone |-> \A i \in 1..Len(calls) : Returned(i), called_at |-> now,
                               stamped_at |-> Null, message_id |-> Null])
    /\ UNCHANGED <<db, now, ret, hist>>

\* validate_agent_outbound: a rejection leaves agent_execute without an audit row.
ValidateAgentOutbound(i) ==
    /\ calls[i].pc = "validate_agent_outbound"
    /\ LET e == validate_agent_outbound(db, SendRequestOf(i), now)
       IN IF e # "" THEN SetCall(i, "returned", e) /\ AgentAnswer(i, e)
          ELSE SetCall(i, "validate_outbound", "") /\ UNCHANGED ret
    /\ UNCHANGED <<db, now, hist>>

\* create_outbound_message: validate_outbound once more.
ValidateOutbound(i) ==
    /\ calls[i].pc = "validate_outbound"
    /\ LET e == validate_outbound(db, SendRequestOf(i), now)
       IN IF e # "" THEN SetCall(i, "insert_audit", e) ELSE SetCall(i, "insert", "")
    /\ UNCHANGED <<db, now, ret, hist>>

\* INSERT INTO messages with created_at = now_iso(); the clock moves on.
InsertMessage(i) ==
    /\ calls[i].pc = "insert"
    /\ db' = [db EXCEPT !.messages = Append(@, [conversation_id |-> calls[i].req.conversation_id,
                                                direction |-> "OUTBOUND", body |-> calls[i].req.body,
                                                status |-> "sent", created_at |-> now,
                                                flags |-> calls[i].req.flags])]
    /\ calls' = [calls EXCEPT ![i].pc = "update_conversation", ![i].stamped_at = now,
                              ![i].message_id = Len(db.messages) + 1]
    /\ now' = now + 1
    /\ UNCHANGED <<ret, hist>>

\* UPDATE conversations SET last_outbound_at, with the instant of the insert.
UpdateConversation(i) ==
    /\ calls[i].pc = "update_conversation"
    /\ db' = [db EXCEPT !.conversations[calls[i].req.conversation_id].last_outbound_at = calls[i].stamped_at]
    /\ SetCall(i, "update_lead", "")
    /\ UNCHANGED <<now, ret, hist>>

\* UPDATE leads SET last_contact_at, with the instant of the insert.
UpdateLeadContact(i) ==
    /\ calls[i].pc = "update_lead"
    /\ db' = [db EXCEPT !.leads[calls[i].req.lead_id].last_contact_at = calls[i].stamped_at]
    /\ SetCall(i, "insert_audit", "")
    /\ UNCHANGED <<now, ret, hist>>

\* The audit row of create_outbound_message, and the answer of agent_execute.
AuditSend(i) ==
    /\ calls[i].pc = "insert_audit"
    /\ db' = insert_audit(db, "create_outbound_message", "conversation", calls[i].req.conversation_id,
                          SendRequestOf(i), calls[i].err = "", calls[i].err)
    /\ SetCall(i, "returned", calls[i].err)
    /\ AgentAnswer(i, calls[i].err)
    /\ UNCHANGED <<now, hist>>

\* An inbound of the lead, handled between two statements of the calls.
InboundBetween(body) ==
    Step("simulate_inbound_sms", [body |-> body, lead_id |-> 1], simulate_inbound_sms(db, 1, body, now))

NextSend ==
    \/ \E req \in SendRequests : SendCall(req)
    \/ \E i \in 1..Len(calls) : ValidateAgentOutbound(i)
    \/ \E i \in 1..Len(calls) : ValidateOutbound(i)
    \/ \E i \in 1..Len(calls) : InsertMessage(i)
    \/ \E i \in 1..Len(calls) : UpdateConversation(i)
    \/ \E i \in 1..Len(calls) : UpdateLeadContact(i)
    \/ \E i \in 1..Len(calls) : AuditSend(i)
    \/ \E body \in {Hi, <<89>>} : InboundBetween(body)

SpecSend == InitConc /\ [][NextSend]_vars

(***************************************************************************)
(* Dry runs: agent_dry_run of every action the agent proposes, between the *)
(* commands that change what its validators read.                          *)
(***************************************************************************)
AgentDryRun(action) ==
    Step("agent_dry_run", action, agent_dry_run(Fresh(db), action, now))

NextDry ==
    \/ \E phone \in Phones, consent \in BOOLEAN : CreateLead([consent |-> consent, phone_e164 |-> phone])
    \/ \E enabled \in BOOLEAN : SetKillSwitch(enabled)
    \/ \E lead_id \in LeadIds, booking \in AgentBookings :
          AgentBookAppointment(lead_id, booking.window, booking.status)
    \/ \E lead_id \in LeadIds : AgentSetOptOut(lead_id)
    \/ \E d \in Jumps : Tick(d)
    \/ \E lead_id \in LeadIds, send \in AgentSends :
          AgentDryRun([body |-> AgentBody, action_type |-> "send_outbound", lead_id |-> lead_id,
                       conversation_id |-> send.conversation_id, flags |-> send.flags])
    \/ \E lead_id \in LeadIds, booking \in AgentBookings :
          AgentDryRun([status |-> booking.status, start_at |-> booking.window[1], end_at |-> booking.window[2],
                       action_type |-> "book_appointment", lead_id |-> lead_id])
    \/ \E lead_id \in LeadIds :
          AgentDryRun([action_type |-> "set_opt_out", lead_id |-> lead_id, reason |-> "agent"])
    \/ \E job \in AgentJobs(now) :
          AgentDryRun([action_type |-> "schedule_job", target_id |-> job.target_id, job_type |-> job.job_type,
                       execute_at |-> job.execute_at, payload |-> job.payload])

SpecDry == Init /\ [][NextDry]_vars

(***************************************************************************)
(* The job queue: one consenting lead, and an agent that schedules due     *)
(* jobs, among them jobs whose payload_json their handler cannot parse.    *)
(***************************************************************************)
\* payload_json that is no object with a lead_id, and a reminder's payload_json
\* without appointment_id and start_at.
UnparsableJobs(t) ==
    {[job_type |-> "initial_follow_up", target_id |-> 1, execute_at |-> t, payload |-> GarbagePayload],
     [job_type |-> "appointment_reminder", target_id |-> 1, execute_at |-> t, payload |-> InitialFollowUpPayload(1)]}

InitJobs ==
    /\ db = ConcStore.db
    /\ now = ConcStore.now
    /\ ret = NoCommand
    /\ hist = [opted_at |-> [l \in 1..Len(ConcStore.db.leads) |-> Null], commands |-> 0, ticks |-> 0]
    /\ calls = << >>

NextJobs ==
    \/ \E job \in AgentJobs(now) \cup UnparsableJobs(now) : AgentScheduleJob(job)
    \/ RunDueJobs
    \/ \E enabled \in BOOLEAN : SetKillSwitch(enabled)
    \/ \E d \in Jumps : Tick(d)

SpecJobs == InitJobs /\ [][NextJobs]_vars

(***************************************************************************)
(* Conversations: leads answer by SMS while the agent books appointments,  *)
(* among them long ones that take every slot of the days the generator     *)
(* examines, or all but the last.                                          *)
(***************************************************************************)
\* The bodies of Bodies, "Y" and "2".
ChatBodies == Bodies \cup {<<89>>, <<50>>}

\* The first generated slot; Tuesday 09:00 to Wednesday 17:00; the same ending at
\* Wednesday 16:10, ten minutes before the last slot of the day starts.
ChatWindows ==
    {<<At(9, 0), At(9, 30)>>, <<At(9, 0), At(17, 0) + Days(1)>>, <<At(9, 0), At(16, 10) + Days(1)>>}

NextChat ==
    \/ \E phone \in Phones, consent \in BOOLEAN : CreateLead([consent |-> consent, phone_e164 |-> phone])
    \/ \E lead_id \in LeadIds, body \in ChatBodies : SimulateInboundSms(lead_id, body)
    \/ \E lead_id \in LeadIds, window \in ChatWindows : AgentBookAppointment(lead_id, window, "booked")
    \/ \E enabled \in BOOLEAN : SetKillSwitch(enabled)
    \/ \E d \in Jumps : Tick(d)

SpecChat == Init /\ [][NextChat]_vars

(***************************************************************************)
(* A stale conversation at the hourly maximum: lead 1 was offered two      *)
(* slots, a day passed, and the other leads were then sent                 *)
(* PerLocationHourMax messages within the minute.                          *)
(***************************************************************************)
\* The store st a time d later, no command having run in between.
Later(st, d) == [db |-> st.db, now |-> st.now + d]

StaleStore ==
    LET cmds == Chat(2, PerLeadDailyMax - 1) \o FullLeads(3)
    IN Replay(Later(Run(Chat(1, 0) \o <<Inbound(1, KwYes)>>), Hours(StaleHours)), cmds, 1, Len(cmds))

InitStale == Seeded(StaleStore)

SpecStale == InitStale /\ [][NextChat]_vars

(***************************************************************************)
(* The calendar functions on their own: has_appointment_conflict,          *)
(* generate_slot_choices, is_business_open and next_open_time applied to a *)
(* clock reading, a business-hours table and a set of appointments.  Days  *)
(* count from the epoch's Monday; the readings lie in its second week.     *)
(***************************************************************************)
Local(day, hour, minute) == FromLocal(Days(day) + Hours(hour) + Minutes(minute))

\* Readings at, just before and just after the opening and closing minutes, between
\* two ranges of a day, on a Saturday and on a Sunday.
Readings ==
    {Local(7, 16, 30), Local(8, 8, 0), Local(8, 9, 0) - 1, Local(8, 9, 0), Local(8, 9, 0) + 1,
     Local(8, 12, 0), Local(8, 12, 30), Local(8, 13, 0), Local(8, 16, 20), Local(8, 17, 0) - 1, Local(8, 17, 0),
     Local(11, 16, 30), Local(12, 10, 0), Local(12, 13, 40), Local(12, 14, 0), Local(13, 12, 0)}

SplitRanges == << << <<9, 0>>, <<12, 0>> >>, << <<13, 0>>, <<17, 0>> >> >>

\* business_hours_json tables with ordered ranges: the default, weekdays closed for
\* lunch, Mondays only, a Tuesday range too short for a slot, and all days closed.
HoursTables ==
    {default_business_hours,
     <<SplitRanges, SplitRanges, SplitRanges, SplitRanges, SplitRanges, << >>, << >> >>,
     << <<WeekdayRange>>, << >>, << >>, << >>, << >>, << >>, << >> >>,
     << << >>, << << <<9, 0>>, <<9, 20>> >> >>, <<WeekdayRange>>, << >>, << >>, << >>, << >> >>,
     << << >>, << >>, << >>, << >>, << >>, << >>, << >> >>}

Appointment(start_at, end_at, status) == [lead_id |-> 1, start_at |-> start_at, end_at |-> end_at, status |-> status]

\* appointments tables: empty; Tuesday 09:00-09:30; Tuesday 09:00 to Wednesday 17:00,
\* and to Wednesday 16:10; the Saturday before to the Saturday after; and Tuesday
\* 09:40-10:10 with 10:25-10:55 and a cancelled 11:40-12:10.
AppointmentTables ==
    {<< >>,
     <<Appointment(Local(8, 9, 0), Local(8, 9, 30), "booked")>>,
     <<Appointment(Local(8, 9, 0), Local(9, 17, 0), "booked")>>,
     <<Appointment(Local(8, 9, 0), Local(9, 16, 10), "booked")>>,
     <<Appointment(Local(5, 0, 0), Local(12, 0, 0), "booked")>>,
     <<Appointment(Local(8, 9, 40), Local(8, 10, 10), "booked"), Appointment(Local(8, 10, 25), Local(8, 10, 55), "booked"),
       Appointment(Local(8, 11, 40), Local(8, 12, 10), "cancelled")>>}

\* Candidate windows around Tuesday 09:00-09:30 and 09:40-10:10.
Candidates ==
    {<<Local(8, h[1], h[2]) + u, Local(8, h[1], h[2]) + u + Minutes(SlotMinutes)>> :
        h \in {<<8, 20>>, <<8, 25>>, <<9, 0>>, <<9, 35>>, <<9, 40>>, <<10, 20>>}, u \in {0 - 1, 0, 1}}

InitSlots ==
    /\ \E hours \in HoursTables, appointments \in AppointmentTables :
          db = [ConcStore.db EXCEPT !.business_hours = hours, !.appointments = appointments]
    /\ now \in Readings
    /\ ret = NoCommand
    /\ hist = [opted_at |-> << >>, commands |-> 0, ticks |-> 0]
    /\ calls = << >>

Applied(cmd, req, val) ==
    /\ ret' = [cmd |-> cmd, req |-> req, ok |-> TRUE, err |-> "", val |-> val]
    /\ UNCHANGED <<db, now, hist, calls>>

HasAppointmentConflict(candidate) ==
    Applied("has_appointment_conflict", candidate,
            has_appointment_conflict(candidate[1], candidate[2], ExistingBookings(db, now)))

GenerateSlotChoices == Applied("generate_slot_choices", now, generate_slot_choices(db, now, now))

IsBusinessOpen == Applied("is_business_open", now, is_business_open(db.business_hours, now))

NextOpenTime == Applied("next_open_time", now, next_open_time(db.business_hours, now))

NextSlots ==
    \/ \E candidate \in Candidates : HasAppointmentConflict(candidate)
    \/ GenerateSlotChoices
    \/ IsBusinessOpen
    \/ NextOpenTime

SpecSlots == InitSlots /\ [][NextSlots]_vars

(***************************************************************************)
(* Outbound gates: the commands of Next that reach create_outbound_message *)
(* or change what its gates read, from the two seeded stores, with agent   *)
(* sends that fail several gates at once.                                  *)
(***************************************************************************)
\* Flags of the sends an agent proposes: at most one bypass flag.
GateFlags ==
    {NoFlags, [NoFlags EXCEPT !.automated = TRUE], [NoFlags EXCEPT !.allow_after_reply = TRUE],
     [NoFlags EXCEPT !.automated = TRUE, !.allow_after_reply = TRUE],
     [NoFlags EXCEPT !.allow_without_consent = TRUE], [NoFlags EXCEPT !.allow_opted_out_once = TRUE],
     [NoFlags EXCEPT !.ignore_business_hours = TRUE],
     [NoFlags EXCEPT !.automated = TRUE, !.ignore_business_hours = TRUE]}

InitGates == InitDay \/ InitHour

NextGates ==
    \/ \E phone \in Phones, consent \in BOOLEAN : CreateLead([consent |-> consent, phone_e164 |-> phone])
    \/ \E lead_id \in LeadIds, body \in Bodies : SimulateInboundSms(lead_id, body)
    \/ \E enabled \in BOOLEAN : SetKillSwitch(enabled)
    \/ RunDueJobs
    \/ \E lead_id \in LeadIds, conversation_id \in LeadIds, flags \in GateFlags :
          AgentSendOutbound(lead_id, conversation_id, flags)
    \/ \E lead_id \in LeadIds : AgentSetOptOut(lead_id)
    \/ \E d \in Jumps : Tick(d)

SpecGates == InitGates /\ [][NextGates]_vars

(***************************************************************************)
(* Properties.                                                             *)
(***************************************************************************)
Booked(d) == {i \in 1..Len(d.appointments) : d.appointments[i].status = "booked"}

\* Two appointments closer than the buffer: neither starts BufferMinutes or more
\* after the other ends.
Conflict(a, b) ==
    ~ \/ a.start_at >= b.end_at + Minutes(BufferMinutes)
      \/ b.start_at >= a.end_at + Minutes(BufferMinutes)

\* C1: after any sequence of commands, every two distinct booked appointments are
\* at least 10 minutes apart: a.start_at >= b.end_at + 10m or b.start_at >= a.end_at + 10m.
NoOverlappingBookings ==
    \A i, j \in Booked(db) : i # j => ~Conflict(db.appointments[i], db.appointments[j])

\* C2: when two create_appointment calls on separate connections interleave, the
\* overlap check and the insert of each call act as one atomic step: once both calls
\* have returned, no two booked appointments conflict under the 10-minute buffer.
AtomicCheckAndInsert ==
    (Len(calls) = MaxCalls /\ \A i \in 1..Len(calls) : calls[i].pc = "returned")
        => \A i, j \in Booked(db) : i # j => ~Conflict(db.appointments[i], db.appointments[j])

\* The leads of the store, and the outbound rows of the messages table.
Leads == 1..Len(db.leads)

Outbound(d) == {i \in 1..Len(d.messages) : d.messages[i].direction = "OUTBOUND"}

\* This step ran a command (a clock jump ran none); db'.audit_log then holds the
\* audit rows the command wrote, and AttemptsOf its create_outbound_message calls.
CommandRan == hist'.commands = hist.commands + 1

AttemptsOf(d) ==
    {d.audit_log[k].request : k \in {n \in 1..Len(d.audit_log) : d.audit_log[n].action_type = "create_outbound_message"}}

AttemptEntries(d) == {k \in 1..Len(d.audit_log) : d.audit_log[k].action_type = "create_outbound_message"}

\* The command of this step was the agent's send_outbound.
AgentSent == ret'.cmd = "agent_execute" /\ ret'.req.action_type = "send_outbound"

AgentBypassErrors ==
    {"agent outbound cannot bypass consent", "agent outbound cannot bypass opt-out suppression",
     "agent outbound cannot ignore business hours"}

KillSwitchError == "kill switch is enabled; automated outbound blocked"
ConversationError == "conversation_id does not match lead"
ConsentError == "consent required before outbound"
OptedOutError == "lead is opted out; outbound blocked"
BusinessHoursError == "outside business hours; outbound blocked"
PerLeadDayError == "rate limit: max 4 outbound per lead/day"
PerLocationHourError == "rate limit: max 100 outbound per location/hour"

StopConfirmation == Text("You are unsubscribed and will receive no more automated messages.")

OptedOut(d, l) == l \in 1..Len(d.leads) /\ d.leads[l].opted_out

OptedOutHasStatus == \A l \in Leads : db.leads[l].opted_out => db.leads[l].status = "opted_out"

OptedOutStays ==
    \A l \in Leads : db.leads[l].opted_out => db'.leads[l].opted_out /\ db'.leads[l].status = "opted_out"

\* C3: in every reachable state a lead with opted_out = true has status = opted_out,
\* and a lead that is opted out stays opted out with status opted_out through every
\* later command.
OptOutIsIrreversible == []OptedOutHasStatus /\ [][OptedOutStays]_vars

\* An opted-out lead whom a later command tried to book.
OptedOutLeadBookingRefused ==
    /\ ret.cmd = "agent_execute"
    /\ ret.req.action_type = "book_appointment"
    /\ OptedOut(db, ret.req.lead_id)
    /\ db.leads[ret.req.lead_id].status = "opted_out"
    /\ ret.val.error = "cannot book appointment for opted-out lead"

\* The outbound rows of lead l stored by the command that opted it out or later.
AfterOptOut(l) ==
    {i \in OutboundOfLead(db, l) : hist.opted_at[l] # Null /\ db.messages[i].created_at >= hist.opted_at[l]}

BothBypassFlags(flags) == flags.allow_without_consent /\ flags.allow_opted_out_once

OnlyConfirmationAfterOptOut ==
    \A l \in Leads : \A i \in AfterOptOut(l) : BothBypassFlags(db.messages[i].flags)

\* A command that found lead l opted out: each of its create_outbound_message calls
\* for l without both flags failed with one of errors, and so did the agent's
\* send_outbound, and no outbound row of l was added.
OptedOutRejected(errors) ==
    CommandRan =>
        /\ \A k \in AttemptEntries(db') :
              LET e == db'.audit_log[k]
              IN (OptedOut(db, e.request.lead_id) /\ ~BothBypassFlags(e.request.flags))
                     => ~e.success /\ e.error_message \in errors
        /\ (AgentSent /\ OptedOut(db, ret'.req.lead_id))
               => /\ ~ret'.val.success
                  /\ ret'.val.error \in errors
                  /\ OutboundOfLead(db', ret'.req.lead_id) = OutboundOfLead(db, ret'.req.lead_id)

SingleOptOutConfirmation == \A l \in Leads : Cardinality(AfterOptOut(l)) <= 1

Pending(d) == {j \in 1..Len(d.scheduled_jobs) : d.scheduled_jobs[j].status = "pending"}

NoPendingJobWhileKilled == is_kill_switch_enabled(db) => Pending(db) = {}

\* set_kill_switch(true) leaves every job that was pending cancelled.
KillCancelsPending ==
    (CommandRan /\ ret'.cmd = "set_kill_switch" /\ ret'.req.enabled)
        => \A j \in Pending(db) : db'.scheduled_jobs[j].status = "cancelled"

\* A command that finds the switch on adds no pending job.
NoPendingJobAdded ==
    (CommandRan /\ is_kill_switch_enabled(db))
        => \A j \in Pending(db') : j <= Len(db.scheduled_jobs)

\* C7: while the kill switch is on no job is pending: schedule_job adds none, from
\* the agent, from create_lead or from a booking, and set_kill_switch(true) turns
\* every pending job to cancelled.
KillSwitchLeavesNoPendingJob ==
    /\ []NoPendingJobWhileKilled
    /\ [][KillCancelsPending /\ NoPendingJobAdded]_vars

\* The switch is on, a job it cancelled is stored, and the agent's schedule_job was refused.
ScheduleRefusedWhileKilled ==
    /\ is_kill_switch_enabled(db)
    /\ \E j \in 1..Len(db.scheduled_jobs) : db.scheduled_jobs[j].status = "cancelled"
    /\ ret.cmd = "agent_execute"
    /\ ret.req.action_type = "schedule_job"
    /\ ret.val.error = "kill switch is enabled; job scheduling blocked"

\* What a command that finds the kill switch on leaves behind.
KillSwitchHalts ==
    (CommandRan /\ is_kill_switch_enabled(db)) =>
        /\ \A i \in Outbound(db') : i > Len(db.messages) => ~db'.messages[i].flags.automated
        /\ ret'.cmd = "run_due_jobs" =>
              /\ db' = Fresh(db)
              /\ ret'.ok
              /\ ret'.val = [processed |-> 0, errors |-> 0,
                             skipped |-> Cardinality({j \in Pending(db) : db.scheduled_jobs[j].execute_at <= now})]

\* C8: a command that finds the kill switch on stores no outbound row of a request
\* with automated = true; run_due_jobs then changes nothing in the store, writes no
\* audit row, and answers processed = 0, errors = 0 and skipped = the number of
\* pending jobs with execute_at <= now.
KillSwitchHaltsAutomation == [][KillSwitchHalts]_vars

\* run_due_jobs answered under the kill switch with a job past its execute_at in the store.
DueJobsSkippedWhileKilled ==
    /\ is_kill_switch_enabled(db)
    /\ ret.cmd = "run_due_jobs"
    /\ ret.val.processed = 0
    /\ \E j \in 1..Len(db.scheduled_jobs) : db.scheduled_jobs[j].execute_at <= now

\* The local calendar date of an instant.
LocalDate(t) == DateNaive(ToLocal(t))

OnLocalDate(d, l, date) == {i \in OutboundOfLead(d, l) : LocalDate(d.messages[i].created_at) = date}

DailyMaximum ==
    \A l \in Leads : \A i \in OutboundOfLead(db, l) :
        Cardinality(OnLocalDate(db, l, LocalDate(db.messages[i].created_at))) <= PerLeadDailyMax

\* The gates of validate_outbound that come before the rate limits let req through.
PassesEarlierGates(d, req, t) ==
    /\ ~(req.flags.automated /\ is_kill_switch_enabled(d))
    /\ d.conversations[req.lead_id].id = req.conversation_id
    /\ d.leads[req.lead_id].consent \/ req.flags.allow_without_consent
    /\ ~d.leads[req.lead_id].opted_out \/ req.flags.allow_opted_out_once
    /\ req.flags.ignore_business_hours \/ is_business_open(d.business_hours, t)

EarlierGateErrors ==
    {KillSwitchError, ConversationError, ConsentError, OptedOutError, BusinessHoursError} \cup AgentBypassErrors

AtDailyMaximum(l) == l \in Leads /\ Cardinality(OnLocalDate(db, l, LocalDate(now))) >= PerLeadDailyMax

\* A command that found lead l at the daily maximum: each create_outbound_message call
\* for l, and the agent's send_outbound, failed, and failed with the per-day error
\* when exact(req) holds and with an error of otherwise when it does not.
FifthRejected(exact(_), otherwise) ==
    CommandRan =>
        /\ \A k \in AttemptEntries(db') :
              LET e == db'.audit_log[k]
              IN AtDailyMaximum(e.request.lead_id) =>
                    /\ ~e.success
                    /\ IF exact(e.request) THEN e.error_message = PerLeadDayError
                       ELSE e.error_message \in otherwise
        /\ (AgentSent /\ AtDailyMaximum(ret'.req.lead_id)) =>
              /\ ~ret'.val.success
              /\ LET req == OutboundRequest(ret'.req.lead_id, ret'.req.conversation_id, ret'.req.body, ret'.req.flags)
                 IN IF exact(req) THEN ret'.val.error = PerLeadDayError
                    ELSE ret'.val.error \in otherwise

\* The lead's consent and opt-out and the kill switch as the command left them: no
\* command changes them after its first outbound attempt.
ReachesRateLimits(req) ==
    /\ PassesEarlierGates(db', req, now)
    /\ ~(AgentSent /\ (req.flags.allow_without_consent \/ req.flags.allow_opted_out_once
                       \/ req.flags.ignore_business_hours))

Always(req) == TRUE

\* C9 (amended): every lead has at most 4 outbound rows on one local calendar date; an
\* attempt for a lead that already has 4 on the current local date is rejected, with
\* 'rate limit: max 4 outbound per lead/day' when the request passes the gates that
\* come before the rate limits, and with the error of the first such gate that
\* refuses it otherwise.
PerLeadDailyLimit ==
    /\ []DailyMaximum
    /\ [][FifthRejected(ReachesRateLimits, EarlierGateErrors)]_vars

\* C9 as stated: the attempt is rejected with 'rate limit: max 4 outbound per lead/day'
\* whatever the request sets.
PerLeadDailyLimitAsStated ==
    /\ []DailyMaximum
    /\ [][FifthRejected(Always, {})]_vars

\* A lead holds 4 outbound rows of the current local date and the last command's
\* attempt for it was refused with the per-day error.
FifthOutboundRefused ==
    \E k \in AttemptEntries(db) :
        /\ db.audit_log[k].error_message = PerLeadDayError
        /\ Cardinality(OnLocalDate(db, db.audit_log[k].request.lead_id, LocalDate(now))) = PerLeadDailyMax

\* The outbound rows of the 60 minutes that end at t.
InHourBefore(d, t) ==
    {i \in Outbound(d) : d.messages[i].created_at >= t - Hours(1) /\ d.messages[i].created_at <= t}

HourlyMaximum ==
    \A i \in Outbound(db) : Cardinality(InHourBefore(db, db.messages[i].created_at)) <= PerLocationHourMax

\* A command that found 100 outbound rows in the last 60 minutes stored no outbound
\* row: its create_outbound_message calls and the agent's send_outbound failed.
HundredFirstRejected ==
    (CommandRan /\ Cardinality(InHourBefore(db, now)) >= PerLocationHourMax) =>
        /\ Outbound(db') = Outbound(db)
        /\ \A k \in AttemptEntries(db') : ~db'.audit_log[k].success
        /\ AgentSent => ~ret'.val.success

\* C10: every 60-minute window holds at most 100 outbound rows across the leads of the
\* location, and an outbound attempted when 100 were stored in the last 60 minutes is
\* rejected and stores nothing.
PerLocationHourlyLimit == []HourlyMaximum /\ [][HundredFirstRejected]_vars

\* 100 outbound rows lie in the last 60 minutes and the last command's attempt was
\* refused with the per-hour error.
HundredFirstOutboundRefused ==
    /\ Cardinality(InHourBefore(db, now)) = PerLocationHourMax
    /\ \E k \in AttemptEntries(db) : db.audit_log[k].error_message = PerLocationHourError

CooldownError == "rate limit: minimum 2 hours between outbound unless lead just replied"

\* The outbound rows of message i's conversation stored before it.
EarlierOutbound(i) ==
    {p \in Outbound(db) : p < i /\ db.messages[p].conversation_id = db.messages[i].conversation_id}

\* Message i follows its conversation's previous outbound p by less than the cool-down.
CloseAfter(i, p) ==
    /\ p \in EarlierOutbound(i)
    /\ \A q \in EarlierOutbound(i) : q <= p
    /\ db.messages[i].created_at - db.messages[p].created_at < Hours(CooldownHours)

\* An inbound of the conversation stored between p and i and stamped strictly after p.
RepliedBetween(p, i) ==
    \E j \in 1..Len(db.messages) :
        /\ p < j /\ j < i
        /\ db.messages[j].direction = "INBOUND"
        /\ db.messages[j].conversation_id = db.messages[i].conversation_id
        /\ db.messages[j].created_at > db.messages[p].created_at

\* C11: an outbound row that follows its conversation's previous outbound by less than
\* 2 hours comes from a request with allow_after_reply, and an inbound of the
\* conversation was received strictly after that previous outbound.
CooldownUnlessReplied ==
    \A i \in Outbound(db) : \A p \in Outbound(db) :
        CloseAfter(i, p) => db.messages[i].flags.allow_after_reply /\ RepliedBetween(p, i)

\* A reply was stored within the cool-down of the previous outbound, and the agent's
\* send that followed was refused by the cool-down.
SendRefusedByCooldown ==
    /\ \E i \in Outbound(db) : \E p \in Outbound(db) : CloseAfter(i, p)
    /\ ret.cmd = "agent_execute"
    /\ ret.req.action_type = "send_outbound"
    /\ ret.val.error = CooldownError

StoredWhileClosed == {i \in Outbound(db) : ~is_business_open(db.business_hours, db.messages[i].created_at)}

Conversations == 1..Len(db.conversations)

\* C13: a conversation is in state awaiting_time_choice exactly when its offered_slots
\* has 2 entries, and offered_slots is empty in the states awaiting_yes and booked.
OfferedSlotsMatchState ==
    \A c \in Conversations :
        /\ db.conversations[c].state = "awaiting_time_choice" <=> Len(db.conversations[c].offered_slots) = 2
        /\ db.conversations[c].state \in {"awaiting_yes", "booked"} => db.conversations[c].offered_slots = << >>

\* The reply to an inbound was refused by the gateway after the state machine had
\* stored the two offered slots: the command failed and the conversation waits for a
\* choice with both slots stored.
SlotsStoredThoughSendFailed ==
    /\ ret.cmd = "simulate_inbound_sms"
    /\ ~ret.ok
    /\ \E c \in Conversations :
          /\ db.conversations[c].lead_id = ret.req.lead_id
          /\ db.conversations[c].state = "awaiting_time_choice"
          /\ Len(db.conversations[c].offered_slots) = 2

BookedFor(d, lead_id) == {i \in Booked(d) : d.appointments[i].lead_id = lead_id}

\* The conversations in state booked.
BookedConversations(d) == {c \in 1..Len(d.conversations) : d.conversations[c].state = "booked"}

\* C14: a conversation in state booked belongs to a lead with at least one booked
\* appointment, and a conversation enters the state booked only in a step in which
\* create_appointment stored a booked appointment of its lead.
BookedOnlyAfterAppointment ==
    /\ [](\A c \in BookedConversations(db) : BookedFor(db, db.conversations[c].lead_id) # {})
    /\ [][\A c \in BookedConversations(db') \ BookedConversations(db) :
              BookedFor(db', db'.conversations[c].lead_id) \ BookedFor(db, db'.conversations[c].lead_id) # {}]_vars

\* The lead chose an offered slot: the conversation is booked and the lead holds the
\* appointment.
ChoiceBooked ==
    /\ ret.cmd = "simulate_inbound_sms"
    /\ \E c \in BookedConversations(db) :
          /\ db.conversations[c].lead_id = ret.req.lead_id
          /\ BookedFor(db, ret.req.lead_id) # {}

\* The action_type the gateway operation behind an agent action writes to the audit log.
AuditedAs(action_type) ==
    CASE action_type = "send_outbound" -> "create_outbound_message"
      [] action_type = "book_appointment" -> "create_appointment"
      [] action_type = "set_opt_out" -> "set_opt_out"
      [] action_type = "schedule_job" -> "schedule_job"

\* C15: a call of a gateway operation appends exactly one audit entry whose
\* action_type names the operation and whose success flag is the call's outcome,
\* accepted or rejected; stated for the one gateway call agent_execute makes, with
\* db.audit_log holding the rows the command appended.
GatewayCallAuditedOnce ==
    ret.cmd = "agent_execute" =>
        /\ Len(db.audit_log) = 1
        /\ db.audit_log[1].action_type = AuditedAs(ret.req.action_type)
        /\ db.audit_log[1].success = ret.val.success

\* The outbound rows of conversation 1 that carry the agent's body.
AgentRows == {i \in Outbound(db) : db.messages[i].conversation_id = 1 /\ db.messages[i].body = AgentBody}

\* Both calls have returned, they were made within the idempotency window of each
\* other, and one of them was accepted.
BothSendsReturned ==
    /\ Len(calls) = MaxCalls
    /\ \A i \in 1..Len(calls) : Returned(i)
    /\ calls[2].called_at - calls[1].called_at < Minutes(IdempotencyMinutes)
    /\ \E i \in 1..Len(calls) : calls[i].err = ""

\* C16: two agent_execute(send_outbound) calls with the same conversation_id and body,
\* made within 10 minutes of each other, insert exactly one OUTBOUND message,
\* whatever runs between them and also when the two calls interleave.
DuplicateSendStoredOnce == BothSendsReturned => Cardinality(AgentRows) = 1

\* The same for two calls of which the second starts after the first has returned.
DuplicateSendStoredOnceInSequence == (BothSendsReturned /\ calls[2].alone) => Cardinality(AgentRows) = 1

StopKeyword(body) == Normalized(body) \in {KwStop, KwUnsubscribe}

\* This step ran simulate_inbound_sms with a stop keyword for an existing lead.
StopProcessed ==
    /\ CommandRan
    /\ ret'.cmd = "simulate_inbound_sms"
    /\ StopKeyword(ret'.req.body)
    /\ LeadExists(db, ret'.req.lead_id)

NewOutbound == Outbound(db') \ Outbound(db)

\* What the stop keyword does to lead l whatever becomes of the confirmation: the
\* lead is opted out, its conversation keeps its state, no appointment and no job is
\* added, and no outbound row other than the confirmation is stored.
StopEffects(l) ==
    /\ db'.leads[l].opted_out
    /\ db'.leads[l].status = "opted_out"
    /\ db'.leads[l].next_action_at = Null
    /\ db'.conversations[l].state = db.conversations[l].state
    /\ db'.conversations[l].offered_slots = db.conversations[l].offered_slots
    /\ db'.conversations[l].repair_attempts = db.conversations[l].repair_attempts
    /\ db'.appointments = db.appointments
    /\ db'.scheduled_jobs = db.scheduled_jobs
    /\ \A i \in NewOutbound :
          /\ db'.messages[i].body = StopConfirmation
          /\ db'.conversations[db'.messages[i].conversation_id].lead_id = l

AtHourlyMaximum == Cardinality(InHourBefore(db, now)) >= PerLocationHourMax

\* C17: an inbound whose normalized body is STOP or UNSUBSCRIBE opts the lead out
\* (opted_out, status opted_out, next_action_at NULL) in any conversation state,
\* leaves the conversation state, the appointments and the jobs alone, and stores
\* exactly 1 confirmation outbound, unless the lead already has 4 outbound rows on
\* the local date or the location 100 in the last hour: then the confirmation is
\* refused by the rate limit, none is stored and the command fails with that error.
StopOptsOutAndConfirms ==
    [][StopProcessed =>
          /\ StopEffects(ret'.req.lead_id)
          /\ IF AtDailyMaximum(ret'.req.lead_id) \/ AtHourlyMaximum
             THEN /\ NewOutbound = {}
                  /\ ~ret'.ok
                  /\ ret'.err \in {PerLeadDayError, PerLocationHourError}
             ELSE /\ Cardinality(NewOutbound) = 1
                  /\ ret'.ok]_vars

\* C17 as stated: exactly 1 confirmation for every such inbound.
StopOptsOutAndConfirmsAsStated ==
    [][StopProcessed => StopEffects(ret'.req.lead_id) /\ Cardinality(NewOutbound) = 1]_vars

\* A lead at the daily maximum sent STOP: it is opted out, and the confirmation was
\* refused by the rate limit.
StopConfirmationRefused ==
    /\ ret.cmd = "simulate_inbound_sms"
    /\ StopKeyword(ret.req.body)
    /\ OptedOut(db, ret.req.lead_id)
    /\ ret.err = PerLeadDayError
    /\ \E k \in AttemptEntries(db) :
          db.audit_log[k].request.body = StopConfirmation /\ ~db.audit_log[k].success

\* This step ran simulate_inbound_sms for a lead that was opted out, with a body that
\* is not blank (a blank body is refused before anything is recorded) and is no stop
\* keyword.
OptedOutInbound ==
    /\ CommandRan
    /\ ret'.cmd = "simulate_inbound_sms"
    /\ Trim(ret'.req.body) # << >>
    /\ ~StopKeyword(ret'.req.body)
    /\ OptedOut(db, ret'.req.lead_id)

\* The store without the columns an inbound stamps and without the rows of the
\* messages and audit tables.
BesidesInbound(d, l) ==
    [d EXCEPT !.messages = << >>, !.audit_log = << >>,
              !.conversations[l].last_inbound_at = Null, !.leads[l].last_contact_at = Null]

\* C18: for a lead that is already opted out, an inbound other than STOP/UNSUBSCRIBE
\* records the INBOUND row and its timestamps and nothing else: no outbound row, the
\* conversation's state, offered_slots and repair_attempts unchanged, no appointment,
\* no job, no staff flag, no audit row.
OptedOutInboundIsNoOp ==
    [][OptedOutInbound =>
          LET l == ret'.req.lead_id
          IN /\ BesidesInbound(db', l) = BesidesInbound(db, l)
             /\ db'.audit_log = << >>
             /\ Outbound(db') = Outbound(db)
             /\ ret'.ok
             /\ Len(db'.messages) = Len(db.messages) + 1
             /\ \A i \in 1..Len(db.messages) : db'.messages[i] = db.messages[i]
             /\ db'.messages[Len(db'.messages)].direction = "INBOUND"
             /\ db'.messages[Len(db'.messages)].conversation_id = db.conversations[l].id
             /\ db'.messages[Len(db'.messages)].body = Trim(ret'.req.body)
             /\ db'.messages[Len(db'.messages)].created_at = now
             /\ db'.conversations[l].last_inbound_at = now
             /\ db'.leads[l].last_contact_at = now]_vars

\* An opted-out lead wrote something other than a stop keyword, and the inbound is
\* the last row of the messages table.
OptedOutLeadWrote ==
    /\ ret.cmd = "simulate_inbound_sms"
    /\ ret.ok
    /\ ~StopKeyword(ret.req.body)
    /\ OptedOut(db, ret.req.lead_id)
    /\ db.messages # << >>
    /\ db.messages[Len(db.messages)].direction = "INBOUND"
    /\ db.conversations[db.messages[Len(db.messages)].conversation_id].lead_id = ret.req.lead_id

\* The leads that hold phone and were created at most 30 days before t.
RecentWithPhone(d, phone, t) ==
    {i \in 1..Len(d.leads) : d.leads[i].phone_e164 = phone /\ t - d.leads[i].created_at <= Days(DuplicateWindowDays)}

\* This step ran create_lead with the phone of a lead created within the last 30 days.
DuplicateCreate ==
    /\ CommandRan
    /\ ret'.cmd = "create_lead"
    /\ RecentWithPhone(db, Trim(ret'.req.phone_e164), now) # {}

DuplicateRefused ==
    DuplicateCreate =>
        /\ db'.leads = db.leads
        /\ db'.conversations = db.conversations
        /\ db'.scheduled_jobs = db.scheduled_jobs
        /\ ret'.ok
        /\ ~ret'.val.created
        /\ ret'.val.lead_id \in RecentWithPhone(db, Trim(ret'.req.phone_e164), now)
        /\ ret'.val.duplicate_of = ret'.val.lead_id
        /\ Len(db'.audit_log) = 1
        /\ db'.audit_log[1].action_type = "duplicate_lead_detected"
        /\ db'.audit_log[1].target_id = ret'.val.lead_id

ApartByWindow ==
    \A i, j \in Leads :
        (i < j /\ db.leads[i].phone_e164 = db.leads[j].phone_e164)
            => db.leads[j].created_at - db.leads[i].created_at > Days(DuplicateWindowDays)

\* C19: create_lead with the phone of a lead created within the last 30 days inserts
\* no lead, conversation or job, answers created = false with lead_id = duplicate_of =
\* the existing lead's id and appends a duplicate_lead_detected audit row; and no two
\* leads with the same phone have created_at within 30 days of each other.
DuplicateLeadRefused == []ApartByWindow /\ [][DuplicateRefused]_vars

\* A phone was submitted again exactly 30 days after its lead was created and was
\* answered as a duplicate.
DuplicateAfterThirtyDays ==
    /\ ret.cmd = "create_lead"
    /\ ret.ok
    /\ ~ret.val.created
    /\ now - db.leads[ret.val.lead_id].created_at = Days(DuplicateWindowDays)
    /\ db.audit_log[1].action_type = "duplicate_lead_detected"

\* This step ran agent_execute.
AgentRan == CommandRan /\ ret'.cmd = "agent_execute"

\* The gateway operation behind the agent's action took effect in this step, and
\* result is what it returned.
AgentStored(action, result) ==
    CASE action.action_type = "send_outbound" ->
            Len(db'.messages) = Len(db.messages) + 1 /\ result = Len(db'.messages)
      [] action.action_type = "book_appointment" ->
            Len(db'.appointments) = Len(db.appointments) + 1 /\ result = Len(db'.appointments)
      [] action.action_type = "set_opt_out" ->
            LeadExists(db, action.lead_id) /\ db'.leads[action.lead_id].opted_out
      [] action.action_type = "schedule_job" ->
            Len(db'.scheduled_jobs) = Len(db.scheduled_jobs) + 1 /\ result = Len(db'.scheduled_jobs)

\* The tables of the store but the audit log.
Tables(d) == [d EXCEPT !.audit_log = << >>]

DryRan == CommandRan /\ ret'.cmd = "agent_dry_run"

\* C21: agent_dry_run changes nothing but the audit log: leads, conversations,
\* messages, appointments, scheduled jobs and settings are the same before and after,
\* and exactly one agent_dry_run audit entry is appended, whether the action is
\* allowed or blocked.
DryRunOnlyAudits ==
    [][DryRan =>
          /\ Tables(db') = Tables(db)
          /\ Len(db'.audit_log) = 1
          /\ db'.audit_log[1].action_type = "agent_dry_run"
          /\ db'.audit_log[1].success = ret'.val.allowed
          /\ ret'.ok]_vars

\* A dry run allowed a booking that agent_execute would have stored: no appointment
\* exists afterwards.
DryRunAllowedBooking ==
    /\ ret.cmd = "agent_dry_run"
    /\ ret.req.action_type = "book_appointment"
    /\ ret.val.allowed
    /\ db.appointments = << >>
    /\ Len(db.audit_log) = 1

JobStatuses == {"pending", "completed", "failed", "cancelled"}

Terminal == JobStatuses \ {"pending"}

\* No job is removed, and a job's status stays as it is or moves from pending to a
\* terminal status.
JobMoves ==
    \A i \in 1..Len(db.scheduled_jobs) :
        /\ i <= Len(db'.scheduled_jobs)
        /\ \/ db'.scheduled_jobs[i].status = db.scheduled_jobs[i].status
           \/ db.scheduled_jobs[i].status = "pending" /\ db'.scheduled_jobs[i].status \in Terminal

\* C22: a ScheduledJob's status only ever moves from pending to one of completed,
\* failed or cancelled; once a job is completed, failed or cancelled no later command
\* (run_due_jobs, set_kill_switch(true), set_kill_switch(false)) changes it again.
JobStatusTerminates ==
    /\ [](\A i \in 1..Len(db.scheduled_jobs) : db.scheduled_jobs[i].status \in JobStatuses)
    /\ [][JobMoves]_vars

\* The kill switch was enabled over a queue holding a completed job and a failed job.
KillSwitchOverFinishedJobs ==
    /\ ret.cmd = "set_kill_switch"
    /\ ret.req.enabled
    /\ \E i, j \in 1..Len(db.scheduled_jobs) :
          db.scheduled_jobs[i].status = "completed" /\ db.scheduled_jobs[j].status = "failed"

\* This step ran run_due_jobs with the kill switch off before and after.
JobsRan ==
    /\ CommandRan
    /\ ret'.cmd = "run_due_jobs"
    /\ ~is_kill_switch_enabled(db)
    /\ ~is_kill_switch_enabled(db')

\* Every job that was due when the step started is completed or failed after it, and
\* the step wrote one run_scheduled_job audit entry for each failed one.
DueJobsFinished ==
    /\ \A i \in DueJobs(db, now) : db'.scheduled_jobs[i].status \in {"completed", "failed"}
    /\ \A i \in DueJobs(db, now) :
          Count({k \in 1..Len(db'.audit_log) :
                    /\ db'.audit_log[k].action_type = "run_scheduled_job"
                    /\ db'.audit_log[k].target_id = i})
              = IF db'.scheduled_jobs[i].status = "failed" THEN 1 ELSE 0

\* The handler of job i can read its payload_json.
Parses(job) ==
    /\ job.job_type = "initial_follow_up" => ParsesAsInitialFollowUp(job.payload)
    /\ job.job_type = "appointment_reminder" => ParsesAsReminder(job.payload)

\* C23: when run_due_jobs is invoked with the kill switch off and it stays off, every
\* job that was pending with execute_at <= now at the start is completed or failed
\* (with one run_scheduled_job audit entry) when the invocation returns, jobs with an
\* unknown job_type or an unparsable payload included, and one job's failure never
\* keeps the later due jobs from being executed.
DueJobsAllFinish == [][JobsRan => DueJobsFinished]_vars

\* The same where every due job's payload_json parses: this much the loop does.
ParsableDueJobsAllFinish ==
    [][JobsRan /\ (\A i \in DueJobs(db, now) : Parses(db.scheduled_jobs[i])) => DueJobsFinished]_vars

\* conversation.last_outbound_at is 24 hours old or older.
Stale(l) ==
    /\ db.conversations[l].last_outbound_at # Null
    /\ now - db.conversations[l].last_outbound_at >= Hours(StaleHours)

\* This step ran simulate_inbound_sms for an existing lead that is not opted out and
\* whose conversation is in state and not stale, with a body that is not blank (a
\* blank body is refused before anything is recorded).
InboundIn(state) ==
    /\ CommandRan
    /\ ret'.cmd = "simulate_inbound_sms"
    /\ LeadExists(db, ret'.req.lead_id)
    /\ Trim(ret'.req.body) # << >>
    /\ ~db.leads[ret'.req.lead_id].opted_out
    /\ db.conversations[ret'.req.lead_id].state = state
    /\ ~Stale(ret'.req.lead_id)

\* The step stored exactly one outbound row, for lead l with this body.
Replied(l, body) ==
    /\ Cardinality(NewOutbound) = 1
    /\ \A i \in NewOutbound : db'.messages[i].body = body /\ db'.messages[i].conversation_id = l

\* The gates a reply of the state machine does not bypass refuse one to lead l.
ReplyRefused(l) == ~db.leads[l].consent \/ AtDailyMaximum(l) \/ AtHourlyMaximum

\* The reply was stored, or refused by one of those gates with the command failing.
RepliedUnlessRefused(l, body) ==
    IF ReplyRefused(l)
    THEN NewOutbound = {} /\ ~ret'.ok /\ ret'.err \in {ConsentError, PerLeadDayError, PerLocationHourError}
    ELSE Replied(l, body) /\ ret'.ok

NoSlotsReply == Text("I couldn't find two matching slots right now. A staff member will follow up shortly.")

\* What an inbound does in awaiting_yes, given what becomes of the reply.
YesEffects(reply(_, _)) ==
    LET l == ret'.req.lead_id
        offered == generate_slot_choices(db, now, now)
        conversation == db'.conversations[l]
    IN IF Normalized(ret'.req.body) \in {KwYes, KwY}
       THEN IF Len(offered) = 2
            THEN /\ conversation.state = "awaiting_time_choice"
                 /\ conversation.offered_slots = offered
                 /\ conversation.repair_attempts = 0
                 /\ db'.leads[l].status = "awaiting_time_choice"
                 /\ reply(l, format_slot_offer(offered))
            ELSE /\ conversation.state = "awaiting_yes"
                 /\ conversation.offered_slots = << >>
                 /\ db'.leads[l].needs_staff_attention
                 /\ reply(l, NoSlotsReply)
       ELSE /\ conversation.state = "awaiting_yes"
            /\ reply(l, YesPrompt)

\* C24: for a lead that is not opted out, in awaiting_yes and not stale, an inbound
\* YES or Y (trimmed, any case) moves the conversation to awaiting_time_choice with
\* the 2 generated slots, repair_attempts 0 and lead.status awaiting_time_choice, and
\* stores one offer outbound, when the generator yields 2 slots; with fewer it leaves
\* awaiting_yes with no offered slots and sets needs_staff_attention; any other body
\* but a stop keyword leaves awaiting_yes and stores the YES prompt.  The reply is
\* stored unless the lead has no consent or a rate limit (per lead and day, per
\* location and hour) is reached: then none is stored and the command fails, the
\* other effects staying.
YesOffersTwoSlots ==
    [][InboundIn("awaiting_yes") /\ ~StopKeyword(ret'.req.body) => YesEffects(RepliedUnlessRefused)]_vars

\* C24 as stated: the reply is stored for every such inbound, and every body other
\* than YES and Y has the YES prompt resent.
YesOffersTwoSlotsAsStated == [][InboundIn("awaiting_yes") => YesEffects(Replied)]_vars

\* A lead answered YES while one appointment took every slot of the three business
\* days examined: the conversation still awaits YES and staff is flagged.
YesFoundNoSlots ==
    /\ ret.cmd = "simulate_inbound_sms"
    /\ Normalized(ret.req.body) = KwYes
    /\ LeadExists(db, ret.req.lead_id)
    /\ db.conversations[ret.req.lead_id].state = "awaiting_yes"
    /\ db.leads[ret.req.lead_id].needs_staff_attention
    /\ \E i \in Outbound(db) : db.messages[i].body = NoSlotsReply

\* A lead without consent answered YES: the conversation awaits the choice between
\* two stored slots, and the offer was refused for want of consent.
YesOfferRefused ==
    /\ ret.cmd = "simulate_inbound_sms"
    /\ Normalized(ret.req.body) \in {KwYes, KwY}
    /\ ret.err = ConsentError
    /\ LeadExists(db, ret.req.lead_id)
    /\ ~db.leads[ret.req.lead_id].consent
    /\ db.leads[ret.req.lead_id].status = "awaiting_time_choice"
    /\ Outbound(db) = {}

SlotTakenError == "selected appointment slot is no longer available"

BookedReply(slot) ==
    [text |-> "Booked. Your intro session is confirmed for {local_slot}. We will send a reminder 2 hours before.",
     args |-> <<local_display(slot.start_at)>>]

\* This step ran simulate_inbound_sms with the body 1 or 2 for a lead that is not
\* opted out and whose conversation awaits the choice and is not stale.
ChoiceMade == InboundIn("awaiting_time_choice") /\ Normalized(ret'.req.body) \in {KwOne, KwTwo}

\* The slot the body of this step names.
Chosen ==
    LET offered == db.conversations[ret'.req.lead_id].offered_slots
    IN IF Normalized(ret'.req.body) = KwOne THEN offered[1] ELSE offered[2]

\* A booked appointment stands within the buffer of the chosen slot.
ChosenSlotTaken ==
    overlap_count(db, [lead_id |-> ret'.req.lead_id, start_at |-> Chosen.start_at, end_at |-> Chosen.end_at,
                       status |-> "booked"]) > 0

\* What the choice does, given what becomes of the confirmation: one booked
\* appointment on the chosen slot, the conversation and the lead booked.
ChoiceEffects(reply(_, _)) ==
    LET l == ret'.req.lead_id
    IN /\ Len(db'.appointments) = Len(db.appointments) + 1
       /\ db'.appointments[Len(db'.appointments)] =
              [lead_id |-> l, start_at |-> Chosen.start_at, end_at |-> Chosen.end_at, status |-> "booked"]
       /\ db'.conversations[l].state = "booked"
       /\ db'.conversations[l].offered_slots = << >>
       /\ db'.conversations[l].repair_attempts = 0
       /\ db'.leads[l].status = "booked"
       /\ reply(l, BookedReply(Chosen))

\* The choice was refused: no appointment, the conversation as it was, no reply.
ChoiceRefused ==
    LET l == ret'.req.lead_id
    IN /\ db'.appointments = db.appointments
       /\ db'.conversations[l].state = "awaiting_time_choice"
       /\ db'.conversations[l].offered_slots = db.conversations[l].offered_slots
       /\ db'.leads[l].status = db.leads[l].status
       /\ NewOutbound = {}
       /\ ~ret'.ok
       /\ ret'.err = SlotTakenError

\* C25: for a lead that is not opted out, awaiting the choice and not stale, an
\* inbound 1 or 2 creates exactly one booked appointment on offered_slots[0] or
\* offered_slots[1], sets the conversation to booked with no offered slots and
\* repair_attempts 0 and lead.status to booked, and stores one confirmation outbound,
\* unless a booked appointment now stands within 10 minutes of the chosen slot (then
\* nothing is booked, the conversation stays as it was and the command fails); the
\* confirmation is stored unless the lead has no consent or a rate limit is reached
\* (then none is stored and the command fails, the booking staying).
ChoiceBooksOfferedSlot ==
    [][ChoiceMade => IF ChosenSlotTaken THEN ChoiceRefused ELSE ChoiceEffects(RepliedUnlessRefused)]_vars

\* C25 as stated: every such choice books and is confirmed.
ChoiceBooksOfferedSlotAsStated == [][ChoiceMade => ChoiceEffects(Replied)]_vars

\* A lead chose slot 1 after the agent had booked that time: the choice was refused
\* and the conversation still awaits it.
ChosenSlotWasTaken ==
    /\ ret.cmd = "simulate_inbound_sms"
    /\ Normalized(ret.req.body) = KwOne
    /\ ret.err = SlotTakenError
    /\ db.conversations[ret.req.lead_id].state = "awaiting_time_choice"
    /\ Cardinality(Booked(db)) = 1

\* The buffer rule between a candidate and an existing booking, each <<start, end>>.
BufferRule(candidate, existing) ==
    /\ candidate[1] < existing[2] + Minutes(BufferMinutes)
    /\ existing[1] < candidate[2] + Minutes(BufferMinutes)

\* C26: has_appointment_conflict(candidate, existing) is true exactly when some
\* existing booking satisfies candidate_start < existing_end + 10 minutes and
\* existing_start < candidate_end + 10 minutes; the relation is symmetric in the two
\* intervals; a candidate starting 5 minutes after a booking's end conflicts, and one
\* starting exactly 10 minutes after the end of the only booking does not.
ConflictIsBufferRule ==
    ret.cmd = "has_appointment_conflict" =>
        LET existing == ExistingBookings(db, now)
            candidate == ret.req
        IN /\ ret.val = (\E i \in 1..Len(existing) : BufferRule(candidate, existing[i]))
           /\ \A i \in 1..Len(existing) :
                 /\ has_appointment_conflict(candidate[1], candidate[2], <<existing[i]>>)
                       = has_appointment_conflict(existing[i][1], existing[i][2], <<candidate>>)
                 /\ candidate[1] = existing[i][2] + Minutes(5) => ret.val
           /\ (Len(existing) = 1 /\ candidate[1] = existing[1][2] + Minutes(BufferMinutes)) => ~ret.val

\* The candidate 09:35-10:05 was found to conflict with the booking 09:00-09:30.
FiveMinutesAfterConflicts ==
    /\ ret.cmd = "has_appointment_conflict"
    /\ ExistingBookings(db, now) = << <<Local(8, 9, 0), Local(8, 9, 30)>> >>
    /\ ret.req = <<Local(8, 9, 35), Local(8, 10, 5)>>
    /\ ret.val

\* The booked appointments as <<start, end>> pairs, and those of them the generator
\* loads at clock t: start_at not more than a day before t, compared to the second.
BookedWindows(d) == {<<d.appointments[i].start_at, d.appointments[i].end_at>> : i \in Booked(d)}

LoadedWindows(d, t) ==
    {w \in BookedWindows(d) : SqlDatetime(w[1]) >= SqlDatetime(t - Days(SlotLookbackDays))}

\* start is open + 40k minutes of a range of its local day, and the slot ends by the
\* range's close.
OnStride(hours, start) ==
    LET local == ToLocal(start)
        ranges == hours[WeekdayOf(DateNaive(local))]
    IN \E r \in 1..Len(ranges) : \E k \in 0..((Days(1) \div Minutes(StrideMinutes))) :
          /\ TimeOfDay(local) = NaiveTimeOf(ranges[r][1]) + Minutes(StrideMinutes * k)
          /\ TimeOfDay(local) + Minutes(SlotMinutes) <= NaiveTimeOf(ranges[r][2])

\* slots are at most 2, ascending, 30 minutes long, after from_utc, on the stride of
\* hours, and conflict with none of windows.
SlotsFit(slots, from_utc, hours, windows) ==
    /\ Len(slots) <= 2
    /\ \A i, j \in 1..Len(slots) : i < j => slots[i].start_at < slots[j].start_at
    /\ \A i \in 1..Len(slots) :
          /\ slots[i].end_at = slots[i].start_at + Minutes(SlotMinutes)
          /\ slots[i].start_at > from_utc
          /\ OnStride(hours, slots[i].start_at)
          /\ \A w \in windows : ~BufferRule(<<slots[i].start_at, slots[i].end_at>>, w)

\* C27: generate_slot_choices returns at most 2 slots in ascending start order, each
\* exactly 30 minutes long, starting strictly after from_utc at open + 40k minutes of
\* an open interval of its local day with end <= close, and in conflict, under the
\* 10-minute buffer rule, with no booked appointment that starts a day before now or
\* later (the appointments the generator loads).
SlotsFitHoursAndBookings ==
    ret.cmd = "generate_slot_choices" => SlotsFit(ret.val, ret.req, db.business_hours, LoadedWindows(db, now))

\* C27 as stated: in conflict with no booked appointment at all.
SlotsFitHoursAndAllBookings ==
    ret.cmd = "generate_slot_choices" => SlotsFit(ret.val, ret.req, db.business_hours, BookedWindows(db))

\* Two slots were generated inside a booked appointment that began more than a day
\* before the clock reading.
SlotsInsideOldBooking ==
    /\ ret.cmd = "generate_slot_choices"
    /\ Len(ret.val) = 2
    /\ \E w \in BookedWindows(db) :
          /\ w \notin LoadedWindows(db, now)
          /\ \A i \in 1..2 : w[1] < ret.val[i].start_at /\ ret.val[i].end_at < w[2]

\* The day offsets below 14 whose local day has an open interval, and the first 3 of
\* them.
OpenDays(hours, from_utc) ==
    {o \in 0..(MaxDayOffset - 1) : hours[WeekdayOf(DateNaive(ToLocal(from_utc)) + o)] # << >>}

FirstBusinessDays(hours, from_utc) ==
    {o \in OpenDays(hours, from_utc) :
        Cardinality({p \in OpenDays(hours, from_utc) : p < o}) < MaxBusinessDays}

\* The starts open + 40k minutes of a range on a local day whose slot ends by the close.
RangeStarts(day, range) ==
    {FromLocal(Days(day) + NaiveTimeOf(range[1]) + Minutes(StrideMinutes * k)) :
        k \in {n \in 0..(Days(1) \div Minutes(StrideMinutes)) :
                  NaiveTimeOf(range[1]) + Minutes(StrideMinutes * n) + Minutes(SlotMinutes) <= NaiveTimeOf(range[2])}}

DayStarts(hours, day) ==
    UNION {RangeStarts(day, hours[WeekdayOf(day)][r]) : r \in 1..Len(hours[WeekdayOf(day)])}

\* The acceptable candidates on the days at offsets: after from_utc and in conflict
\* with no appointment the generator loads.
Acceptable(d, from_utc, offsets) ==
    {start \in UNION {DayStarts(d.business_hours, DateNaive(ToLocal(from_utc)) + o) : o \in offsets} :
        /\ start > from_utc
        /\ \A w \in LoadedWindows(d, from_utc) : ~BufferRule(<<start, start + Minutes(SlotMinutes)>>, w)}

InOpenInterval(hours, t) ==
    LET ranges == hours[WeekdayOf(DateNaive(ToLocal(t)))]
    IN \E r \in 1..Len(ranges) :
          /\ NaiveTimeOf(ranges[r][1]) <= TimeOfDay(ToLocal(t))
          /\ TimeOfDay(ToLocal(t)) < NaiveTimeOf(ranges[r][2])

\* The opening instants later than from_utc on its local day and the 20 days after.
LaterOpenings(hours, from_utc) ==
    {opening \in UNION {{FromLocal(Days(DateNaive(ToLocal(from_utc)) + o)
                                   + NaiveTimeOf(hours[WeekdayOf(DateNaive(ToLocal(from_utc)) + o)][r][1])) :
                            r \in 1..Len(hours[WeekdayOf(DateNaive(ToLocal(from_utc)) + o)])} :
                        o \in 0..(NextOpenScanDays - 1)} :
        opening > from_utc}

GateFails(d, req, t) ==
    LET known == LeadExists(d, req.lead_id)
        lead == d.leads[req.lead_id]
        convo == d.conversations[req.lead_id]
    IN <<req.flags.automated /\ is_kill_switch_enabled(d),
         ~known \/ convo.id # req.conversation_id,
         known /\ ~lead.consent /\ ~req.flags.allow_without_consent,
         known /\ lead.opted_out /\ ~req.flags.allow_opted_out_once,
         ~req.flags.ignore_business_hours /\ ~is_business_open(d.business_hours, t),
         known /\ Cardinality({i \in OutboundOfLead(d, req.lead_id) :
                                  SqlLocalDate(d.messages[i].created_at) = SqlLocalDate(t)}) >= PerLeadDailyMax,
         Cardinality({i \in 1..Len(d.messages) :
                         /\ d.messages[i].direction = "OUTBOUND"
                         /\ SqlDatetime(d.messages[i].created_at) >= SqlDatetime(t - Hours(1))}) >= PerLocationHourMax,
         /\ known
         /\ convo.last_outbound_at # Null
         /\ t - convo.last_outbound_at < Hours(CooldownHours)
         /\ ~(/\ req.flags.allow_after_reply
              /\ convo.last_inbound_at # Null
              /\ convo.last_inbound_at > convo.last_outbound_at)>>

GateErrors(d, req) ==
    <<KillSwitchError, IF LeadExists(d, req.lead_id) THEN ConversationError ELSE "lead not found",
      ConsentError, OptedOutError, BusinessHoursError, PerLeadDayError, PerLocationHourError, CooldownError>>

FailingGates(d, req, t) == {g \in 1..8 : GateFails(d, req, t)[g]}

\* The error of the first failing gate, "" when every gate passes.
FirstFailure(d, req, t) ==
    IF FailingGates(d, req, t) = {} THEN ""
    ELSE GateErrors(d, req)[CHOOSE g \in FailingGates(d, req, t) : \A h \in FailingGates(d, req, t) : g <= h]

\* The refused create_outbound_message calls of this step's command after which the
\* command stored no outbound row: the store they were checked against is the one
\* the command leaves.
RefusedLast(d) ==
    {k \in 1..Len(d.audit_log) :
        /\ d.audit_log[k].action_type = "create_outbound_message"
        /\ ~d.audit_log[k].success
        /\ \A j \in (k + 1)..Len(d.audit_log) :
              d.audit_log[j].action_type = "create_outbound_message" => ~d.audit_log[j].success}

BypassFlagged(flags) ==
    flags.allow_without_consent \/ flags.allow_opted_out_once \/ flags.ignore_business_hours

AgentRefused == hist'.commands # hist.commands /\ ret'.cmd = "agent_execute" /\ ~ret'.val.success

\* The command of this step was a run_due_jobs every send of which was refused.
JobsAllRefused ==
    /\ hist'.commands # hist.commands
    /\ ret'.cmd = "run_due_jobs"
    /\ \E k \in 1..Len(db'.audit_log) : db'.audit_log[k].action_type = "create_outbound_message"
    /\ \A k \in 1..Len(db'.audit_log) :
          db'.audit_log[k].action_type = "create_outbound_message" => ~db'.audit_log[k].success

GatewayActions == {"create_outbound_message", "create_appointment", "set_opt_out", "schedule_job"}

\* C31: when create_outbound_message, create_appointment, set_opt_out or schedule_job
\* refuses a request, no table but the audit log changes (no message, appointment or
\* job row, no field of a lead or conversation), the gateway writes nothing but failure
\* audit rows, at most one of its own, and the caller receives the validation error
\* that row records.  The same holds of the sends run_due_jobs makes: when all are
\* refused no message is stored, no lead or conversation changes, and the error the
\* job handler receives, recorded with the failed job, is the refused send's.
RefusalWritesOnlyAudit ==
    /\ [][AgentRefused =>
             /\ Tables(db') = Tables(db)
             /\ ret'.val.error # ""
             /\ \A k \in 1..Len(db'.audit_log) : ~db'.audit_log[k].success
             /\ Cardinality({k \in 1..Len(db'.audit_log) : db'.audit_log[k].action_type \in GatewayActions}) <= 1
             /\ \A k \in 1..Len(db'.audit_log) :
                   db'.audit_log[k].action_type \in GatewayActions =>
                       db'.audit_log[k].error_message = ret'.val.error]_vars
    /\ [][JobsAllRefused =>
             /\ db'.messages = db.messages
             /\ db'.leads = db.leads
             /\ db'.conversations = db.conversations
             /\ db'.appointments = db.appointments
             /\ \A k \in 1..Len(db'.audit_log) :
                   db'.audit_log[k].action_type = "create_outbound_message" =>
                       /\ k < Len(db'.audit_log)
                       /\ db'.audit_log[k + 1].action_type = "run_scheduled_job"
                       /\ db'.audit_log[k + 1].error_message = db'.audit_log[k].error_message
                       /\ db'.audit_log[k].error_message # ""]_vars

\* The agent's booking was refused for a conflict by a lead whose status was not booked,
\* and the failure row is the command's only audit row.
BookingRefusedLeadUntouched ==
    /\ ret.cmd = "agent_execute"
    /\ ret.req.action_type = "book_appointment"
    /\ ~ret.val.success
    /\ ret.val.error = SlotTakenError
    /\ db.leads[ret.req.lead_id].status # "booked"
    /\ Len(db.audit_log) = 1
    /\ db.audit_log[1].action_type = "create_appointment"

\* This step ran simulate_inbound_sms with a body that is not blank and no stop keyword
\* for a lead that is not opted out and whose conversation is stale.
StaleInbound ==
    /\ CommandRan
    /\ ret'.cmd = "simulate_inbound_sms"
    /\ LeadExists(db, ret'.req.lead_id)
    /\ Trim(ret'.req.body) # << >>
    /\ ~StopKeyword(ret'.req.body)
    /\ ~db.leads[ret'.req.lead_id].opted_out
    /\ Stale(ret'.req.lead_id)

\* The stale reset, given what becomes of the prompt.
StaleEffects(reply(_, _)) ==
    LET l == ret'.req.lead_id
    IN /\ db'.conversations[l].state = "awaiting_yes"
       /\ db'.conversations[l].offered_slots = << >>
       /\ db'.conversations[l].repair_attempts = 0
       /\ db'.leads[l].status = "awaiting_yes"
       /\ reply(l, YesPrompt)
       /\ db'.appointments = db.appointments
       /\ db'.scheduled_jobs = db.scheduled_jobs

\* The inbound is recorded and the command fails with the hourly limit's error,
\* the conversation and the lead's status staying as they were.
StaleRefused ==
    LET l == ret'.req.lead_id
    IN /\ NewOutbound = {}
       /\ ~ret'.ok
       /\ ret'.err = PerLocationHourError
       /\ db'.conversations[l].state = db.conversations[l].state
       /\ db'.conversations[l].offered_slots = db.conversations[l].offered_slots
       /\ db'.conversations[l].repair_attempts = db.conversations[l].repair_attempts
       /\ db'.leads[l].status = db.leads[l].status
       /\ db'.appointments = db.appointments
       /\ db'.scheduled_jobs = db.scheduled_jobs

\* C32: for a lead that is not opted out and an inbound that is no stop keyword, when
\* the conversation's last_outbound_at is 24 hours or more before now the stale reset
\* comes before the dispatch on the state, whatever the state and the body: no
\* appointment is created, and unless the location's hourly limit refuses the prompt
\* the conversation becomes awaiting_yes with empty offered_slots and repair_attempts
\* 0, lead.status becomes awaiting_yes and exactly one re-engagement prompt is stored;
\* when the limit refuses it the command fails and conversation and lead.status stay.
StaleResetFirst ==
    [][StaleInbound => IF AtHourlyMaximum THEN StaleRefused ELSE StaleEffects(Replied) /\ ret'.ok]_vars

\* C32 as stated: the reset happens and the prompt is stored for every such inbound.
StaleResetFirstAsStated == [][StaleInbound => StaleEffects(Replied)]_vars

\* A lead holding two offered slots answered 1 a day and an hour after the offer: the
\* conversation awaits YES again, the offer is gone, and nothing was booked.
StaleChoiceWasReset ==
    /\ ret.cmd = "simulate_inbound_sms"
    /\ ret.ok
    /\ Normalized(ret.req.body) = KwOne
    /\ ret.req.lead_id = 1
    /\ db.conversations[1].state = "awaiting_yes"
    /\ db.conversations[1].offered_slots = << >>
    /\ db.leads[1].status = "awaiting_yes"
    /\ db.appointments = << >>
    /\ db.messages[Len(db.messages)].body = YesPrompt
    /\ db.messages[Len(db.messages) - 1].body = KwOne

\* This step ran an inbound in awaiting_time_choice that is no stop keyword and no
\* 1 or 2 naming an offered slot.
RepairInbound ==
    /\ InboundIn("awaiting_time_choice")
    /\ ~StopKeyword(ret'.req.body)
    /\ ~(/\ Normalized(ret'.req.body) \in {KwOne, KwTwo}
         /\ (IF Normalized(ret'.req.body) = KwOne THEN 1 ELSE 2)
                <= Len(db.conversations[ret'.req.lead_id].offered_slots))

\* C33: each invalid response processed in awaiting_time_choice increases
\* repair_attempts by exactly 1, whether or not 2 fresh slots are found, the lead is
\* flagged needs_staff_attention whenever the count after the increase is 2 or more,
\* and the conversation stays in awaiting_time_choice.
RepairCountsEveryAttempt ==
    [][RepairInbound =>
          LET l == ret'.req.lead_id
          IN /\ db'.conversations[l].repair_attempts = db.conversations[l].repair_attempts + 1
             /\ db'.conversations[l].repair_attempts >= 2 => db'.leads[l].needs_staff_attention
             /\ db'.conversations[l].state = "awaiting_time_choice"]_vars

\* What the code does: the count rises by 1 when 2 fresh slots are found and stays
\* when fewer are found, the lead then being flagged whatever the count.
RepairCountsWhenSlotsFound ==
    [][RepairInbound =>
          LET l == ret'.req.lead_id
              found == Len(generate_slot_choices(db, now, now)) = 2
          IN /\ db'.conversations[l].repair_attempts
                   = db.conversations[l].repair_attempts + (IF found THEN 1 ELSE 0)
             /\ db'.conversations[l].repair_attempts >= 2 \/ ~found => db'.leads[l].needs_staff_attention
             /\ db'.conversations[l].state = "awaiting_time_choice"]_vars

\* This step's inbound 1 or 2 booked the chosen slot while the kill switch was off.
StateMachineBooked ==
    /\ ChoiceMade
    /\ ~is_kill_switch_enabled(db)
    /\ Len(db'.appointments) = Len(db.appointments) + 1

\* The pending reminder jobs of d for lead l's appointment id starting at start_at.
RemindersOf(d, l, id, start_at) ==
    {j \in 1..Len(d.scheduled_jobs) :
        /\ d.scheduled_jobs[j].job_type = "appointment_reminder"
        /\ d.scheduled_jobs[j].status = "pending"
        /\ d.scheduled_jobs[j].execute_at = start_at - Hours(ReminderLeadHours)
        /\ d.scheduled_jobs[j].payload = ReminderPayload(l, id, start_at)}

\* The reminder of the appointment this step booked is scheduled, and nothing else.
ReminderScheduled ==
    /\ Cardinality(RemindersOf(db', ret'.req.lead_id, Len(db'.appointments), Chosen.start_at)) = 1
    /\ Len(db'.scheduled_jobs) = Len(db.scheduled_jobs) + 1

\* C34: whenever the inbound state machine books an appointment whose start_at minus
\* 2 hours is later than now while the kill switch is off, exactly one pending
\* appointment_reminder job with execute_at = start_at - 2h and a payload naming the
\* lead and the appointment exists once the inbound has been processed; no reminder
\* job is created when start_at - 2h <= now.
BookingSchedulesReminder ==
    [][StateMachineBooked =>
          IF Chosen.start_at - Hours(ReminderLeadHours) > now
          THEN ReminderScheduled
          ELSE db'.scheduled_jobs = db.scheduled_jobs]_vars

\* What the code does: the reminder is scheduled when the confirmation was stored,
\* and no job is created when the gateway refused the confirmation.
BookingSchedulesReminderIfConfirmed ==
    [][StateMachineBooked =>
          IF Chosen.start_at - Hours(ReminderLeadHours) > now /\ ret'.ok
          THEN ReminderScheduled /\ Replied(ret'.req.lead_id, BookedReply(Chosen))
          ELSE db'.scheduled_jobs = db.scheduled_jobs]_vars

\* This step ran create_lead and it created a lead.
LeadCreated == CommandRan /\ ret'.cmd = "create_lead" /\ ret'.ok /\ ret'.val.created

\* When the first follow-up of a lead created at t is due.
FollowUpAt(t) ==
    IF is_business_open(db.business_hours, t)
    THEN t + Seconds(FollowUpDelaySeconds)
    ELSE next_open_time(db.business_hours, t)

\* C35: create_lead for a new phone inserts one lead with status awaiting_yes and one
\* conversation in awaiting_yes with empty offered_slots; with consent and the kill
\* switch off it also inserts exactly one pending initial_follow_up job, due at
\* now + 30 s when the location is open and at next_open_time(now) otherwise, and sets
\* lead.next_action_at to that time; without consent, or with the kill switch on, no
\* job is inserted and next_action_at stays NULL.
CreateLeadSchedulesFollowUp ==
    [][LeadCreated =>
          LET l == ret'.val.lead_id
          IN /\ l = Len(db.leads) + 1
             /\ Len(db'.leads) = l
             /\ \A i \in 1..Len(db.leads) : db'.leads[i] = db.leads[i]
             /\ db'.leads[l].status = "awaiting_yes"
             /\ db'.leads[l].phone_e164 = Trim(ret'.req.phone_e164)
             /\ db'.leads[l].consent = ret'.req.consent
             /\ ~db'.leads[l].opted_out
             /\ Len(db'.conversations) = Len(db.conversations) + 1
             /\ \A i \in 1..Len(db.conversations) : db'.conversations[i] = db.conversations[i]
             /\ {i \in 1..Len(db'.conversations) : db'.conversations[i].lead_id = l} = {Len(db'.conversations)}
             /\ db'.conversations[Len(db'.conversations)].state = "awaiting_yes"
             /\ db'.conversations[Len(db'.conversations)].offered_slots = << >>
             /\ IF ret'.req.consent /\ ~is_kill_switch_enabled(db)
                THEN /\ db'.scheduled_jobs =
                            Append(db.scheduled_jobs,
                                   [job_type |-> "initial_follow_up", target_id |-> l, execute_at |-> FollowUpAt(now),
                                    status |-> "pending", payload |-> InitialFollowUpPayload(l)])
                     /\ db'.leads[l].next_action_at = FollowUpAt(now)
                     /\ FollowUpAt(now) > now
                ELSE /\ db'.scheduled_jobs = db.scheduled_jobs
                     /\ db'.leads[l].next_action_at = Null]_vars

\* A consenting lead was created after closing time: its follow-up waits for the next
\* opening, more than 30 seconds away, and next_action_at says so.
FollowUpWaitsForOpening ==
    /\ ret.cmd = "create_lead"
    /\ ret.ok
    /\ ret.val.created
    /\ ~is_business_open(db.business_hours, db.leads[ret.val.lead_id].created_at)
    /\ db.leads[ret.val.lead_id].next_action_at = next_open_time(db.business_hours, db.leads[ret.val.lead_id].created_at)
    /\ db.leads[ret.val.lead_id].next_action_at > db.leads[ret.val.lead_id].created_at + Seconds(FollowUpDelaySeconds)
    /\ \E j \in 1..Len(db.scheduled_jobs) :
          /\ db.scheduled_jobs[j].target_id = ret.val.lead_id
          /\ db.scheduled_jobs[j].job_type = "initial_follow_up"
          /\ db.scheduled_jobs[j].status = "pending"
          /\ db.scheduled_jobs[j].execute_at = db.leads[ret.val.lead_id].next_action_at

(***************************************************************************)
(* run_due_jobs and set_kill_switch statement by statement.  Each command  *)
(* opens a connection of its own and every conn.execute and query_row      *)
(* commits as it runs, so the statements of overlapping invocations        *)
(* interleave.  calls[i].pc is the statement invocation i runs next,       *)
(* calls[i].jobs the rows it selected before its loop, calls[i].k its      *)
(* position in them, calls[i].ran the jobs whose handler it entered,       *)
(* calls[i].wrote the jobs whose status it set, and calls[i].alone whether *)
(* every earlier invocation had returned when it was made.                 *)
(***************************************************************************)
MaxRunners == 2
MaxSwitches == 1

\* A consenting lead whose initial follow-up has come due, the kill switch off.
RunnerLeads == Later(Run(<<NewLead(1)>>), Minutes(1))

\* After it the agent's due job whose payload_json its handler cannot parse.
RunnerStore ==
    [db |-> schedule_job(Fresh(RunnerLeads.db),
                         [job_type |-> "initial_follow_up", target_id |-> 1, execute_at |-> RunnerLeads.now,
                          payload |-> GarbagePayload], RunnerLeads.now).db,
     now |-> RunnerLeads.now]

InitRunner == Seeded(RunnerStore)

NoCounts == [processed |-> 0, skipped |-> 0, errors |-> 0]

Runners == {i \in 1..Len(calls) : calls[i].req = "run_due_jobs"}

Switches == {i \in 1..Len(calls) : calls[i].req = "set_kill_switch"}

\* The row of the loop's current iteration.
JobIdOf(i) == calls[i].jobs[calls[i].k]

JobOf(i) == db.scheduled_jobs[JobIdOf(i)]

\* The OutboundRequest the handler of job builds.
HandlerRequest(d, job) ==
    OutboundRequest(job.payload.lead_id, d.conversations[job.payload.lead_id].id,
                    IF job.job_type = "initial_follow_up"
                    THEN Text("Hi {display_name}, this is {gym_name}. Reply YES to see two available intro session times.")
                    ELSE [text |-> "Reminder {display_name}: your gym appointment is at {local_start}. Reply STOP to opt out.",
                          args |-> <<local_display(job.payload.start_at)>>],
                    JobFlags)

\* The command returns to the host.
RunnerAnswer(i, ok, err, val) ==
    ret' = [cmd |-> calls[i].req, req |-> calls[i].enabled, ok |-> ok, err |-> err, val |-> val]

\* run_due_jobs is invoked: open_conn and get_location.
RunnerCall ==
    /\ Count(Runners) < MaxRunners
    /\ calls' = Append(calls, [req |-> "run_due_jobs", pc |-> "is_kill_switch_enabled", err |-> "",
                               enabled |-> Null, jobs |-> << >>, k |-> 1, counts |-> NoCounts,
                               ran |-> << >>, wrote |-> {}, stamped_at |-> Null,
                               alone |-> \A i \in 1..Len(calls) : Returned(i)])
    /\ UNCHANGED <<db, now, ret, hist>>

\* if is_kill_switch_enabled(&conn)? before the rows are selected.
RunnerKillSwitch(i) ==
    /\ calls[i].req = "run_due_jobs"
    /\ calls[i].pc = "is_kill_switch_enabled"
    /\ SetCall(i, IF is_kill_switch_enabled(db) THEN "count_skipped" ELSE "select_jobs", "")
    /\ UNCHANGED <<db, now, ret, hist>>

\* SELECT COUNT(*) of the due pending rows, and the early return.
RunnerCountSkipped(i) ==
    /\ calls[i].pc = "count_skipped"
    /\ calls' = [calls EXCEPT ![i].pc = "returned", ![i].counts.skipped = Count(DueJobs(db, now))]
    /\ RunnerAnswer(i, TRUE, "", [NoCounts EXCEPT !.skipped = Count(DueJobs(db, now))])
    /\ UNCHANGED <<db, now, hist>>

\* SELECT ... WHERE status='pending' AND execute_at <= now ORDER BY execute_at, into jobs.
RunnerSelectJobs(i) ==
    /\ calls[i].pc = "select_jobs"
    /\ calls' = [calls EXCEPT ![i].pc = "next_job", ![i].jobs = OrderByExecuteAt(db, DueJobs(db, now))]
    /\ UNCHANGED <<db, now, ret, hist>>

\* The head of the for loop: the kill switch is read again, then payload_json is parsed.
RunnerNextJob(i) ==
    /\ calls[i].pc = "next_job"
    /\ IF calls[i].k > Len(calls[i].jobs)
       THEN /\ SetCall(i, "returned", "")
            /\ RunnerAnswer(i, TRUE, "", calls[i].counts)
       ELSE IF is_kill_switch_enabled(db)
       THEN /\ calls' = [calls EXCEPT ![i].k = @ + 1, ![i].counts.skipped = @ + 1]
            /\ UNCHANGED ret
       ELSE IF \/ JobOf(i).job_type = "initial_follow_up" /\ ~ParsesAsInitialFollowUp(JobOf(i).payload)
               \/ JobOf(i).job_type = "appointment_reminder" /\ ~ParsesAsReminder(JobOf(i).payload)
       THEN /\ SetCall(i, "audit_command", "payload_json does not parse")
            /\ UNCHANGED ret
       ELSE IF JobOf(i).job_type \notin {"initial_follow_up", "appointment_reminder"}
       THEN /\ calls' = [calls EXCEPT ![i].pc = "set_status", ![i].err = "unknown job_type",
                                      ![i].ran = Append(@, JobIdOf(i))]
            /\ UNCHANGED ret
       ELSE /\ calls' = [calls EXCEPT ![i].pc = "get_lead", ![i].ran = Append(@, JobIdOf(i))]
            /\ UNCHANGED ret
    /\ UNCHANGED <<db, now, hist>>

\* map_cmd_result on the closure's error: the command's audit row, and Err to the host.
RunnerAuditCommand(i) ==
    /\ calls[i].pc = "audit_command"
    /\ db' = insert_audit(db, "run_due_jobs", "command", Null, [action |-> "run_due_jobs"], FALSE, calls[i].err)
    /\ SetCall(i, "returned", calls[i].err)
    /\ RunnerAnswer(i, FALSE, calls[i].err, Null)
    /\ UNCHANGED <<now, hist>>

\* The handler: get_lead and get_conversation_by_lead_id.
JobGetLead(i) ==
    /\ calls[i].pc = "get_lead"
    /\ IF LeadExists(db, JobOf(i).payload.lead_id)
       THEN SetCall(i, "validate_outbound", "")
       ELSE SetCall(i, "set_status", "lead not found")
    /\ UNCHANGED <<db, now, ret, hist>>

\* create_outbound_message: validate_outbound reads the kill switch, the lead and the limits.
JobValidateOutbound(i) ==
    /\ calls[i].pc = "validate_outbound"
    /\ LET e == validate_outbound(db, HandlerRequest(db, JobOf(i)), now)
       IN IF e # "" THEN SetCall(i, "audit_send", e) ELSE SetCall(i, "insert_message", "")
    /\ UNCHANGED <<db, now, ret, hist>>

\* INSERT INTO messages.
JobInsertMessage(i) ==
    /\ calls[i].pc = "insert_message"
    /\ LET req == HandlerRequest(db, JobOf(i))
       IN db' = [db EXCEPT !.messages = Append(@, [conversation_id |-> req.conversation_id, direction |-> "OUTBOUND",
                                                   body |-> req.body, status |-> "sent", created_at |-> now,
                                                   flags |-> req.flags])]
    /\ calls' = [calls EXCEPT ![i].pc = "update_conversation", ![i].stamped_at = now]
    /\ UNCHANGED <<now, ret, hist>>

\* UPDATE conversations SET last_outbound_at.
JobUpdateConversation(i) ==
    /\ calls[i].pc = "update_conversation"
    /\ db' = [db EXCEPT !.conversations[HandlerRequest(db, JobOf(i)).conversation_id].last_outbound_at =
                            calls[i].stamped_at]
    /\ SetCall(i, "update_lead", "")
    /\ UNCHANGED <<now, ret, hist>>

\* UPDATE leads SET last_contact_at.
JobUpdateLead(i) ==
    /\ calls[i].pc = "update_lead"
    /\ db' = [db EXCEPT !.leads[JobOf(i).payload.lead_id].last_contact_at = calls[i].stamped_at]
    /\ SetCall(i, "audit_send", "")
    /\ UNCHANGED <<now, ret, hist>>

\* The audit row of create_outbound_message; its Err leaves the handler through `?`.
JobAuditSend(i) ==
    /\ calls[i].pc = "audit_send"
    /\ LET req == HandlerRequest(db, JobOf(i))
       IN db' = insert_audit(db, "create_outbound_message", "conversation", req.conversation_id, req,
                             calls[i].err = "", calls[i].err)
    /\ SetCall(i, IF calls[i].err = "" /\ JobOf(i).job_type = "initial_follow_up"
                  THEN "clear_next_action" ELSE "set_status", calls[i].err)
    /\ UNCHANGED <<now, ret, hist>>

\* execute_initial_follow_up: UPDATE leads SET next_action_at=NULL.
JobClearNextAction(i) ==
    /\ calls[i].pc = "clear_next_action"
    /\ db' = [db EXCEPT !.leads[JobOf(i).payload.lead_id].next_action_at = Null]
    /\ SetCall(i, "set_status", "")
    /\ UNCHANGED <<now, ret, hist>>

\* UPDATE scheduled_jobs SET status='completed' or 'failed' WHERE id=?.
JobSetStatus(i) ==
    /\ calls[i].pc = "set_status"
    /\ db' = SetJobStatus(db, JobIdOf(i), IF calls[i].err = "" THEN "completed" ELSE "failed")
    /\ calls' = IF calls[i].err = ""
                THEN [calls EXCEPT ![i].pc = "next_job", ![i].k = @ + 1, ![i].counts.processed = @ + 1,
                                   ![i].wrote = @ \cup {JobIdOf(i)}]
                ELSE [calls EXCEPT ![i].pc = "audit_job", ![i].counts.errors = @ + 1,
                                   ![i].wrote = @ \cup {JobIdOf(i)}]
    /\ UNCHANGED <<now, ret, hist>>

\* The run_scheduled_job audit row of a failed job.
JobAudit(i) ==
    /\ calls[i].pc = "audit_job"
    /\ db' = insert_audit(db, "run_scheduled_job", "scheduled_job", JobIdOf(i),
                          [job_type |-> JobOf(i).job_type, target_id |-> JobOf(i).target_id,
                           payload |-> JobOf(i).payload], FALSE, calls[i].err)
    /\ calls' = [calls EXCEPT ![i].pc = "next_job", ![i].k = @ + 1, ![i].err = ""]
    /\ UNCHANGED <<now, ret, hist>>

\* set_kill_switch is invoked: open_conn and get_location.
SwitchCall(enabled) ==
    /\ Count(Switches) < MaxSwitches
    /\ calls' = Append(calls, [req |-> "set_kill_switch", pc |-> "upsert", err |-> "",
                               enabled |-> enabled, jobs |-> << >>, k |-> 1, counts |-> NoCounts,
                               ran |-> << >>, wrote |-> {}, stamped_at |-> Null,
                               alone |-> \A i \in 1..Len(calls) : Returned(i)])
    /\ UNCHANGED <<db, now, ret, hist>>

\* INSERT INTO settings ... ON CONFLICT(key) DO UPDATE.
SwitchUpsert(i) ==
    /\ calls[i].pc = "upsert"
    /\ db' = [db EXCEPT !.kill_switch = IF calls[i].enabled THEN "true" ELSE "false"]
    /\ SetCall(i, "audit_setting", "")
    /\ UNCHANGED <<now, ret, hist>>

\* The set_kill_switch audit row; with enabled = false the command returns.
SwitchAudit(i) ==
    /\ calls[i].pc = "audit_setting"
    /\ db' = insert_audit(db, "set_kill_switch", "settings", "kill_switch", [enabled |-> calls[i].enabled], TRUE, "")
    /\ IF calls[i].enabled
       THEN SetCall(i, "cancel_jobs", "") /\ UNCHANGED ret
       ELSE SetCall(i, "returned", "") /\ RunnerAnswer(i, TRUE, "", Null)
    /\ UNCHANGED <<now, hist>>

\* cancel_jobs_on_kill_switch: UPDATE scheduled_jobs SET status='cancelled' WHERE status='pending'.
SwitchCancelJobs(i) ==
    /\ calls[i].pc = "cancel_jobs"
    /\ db' = [db EXCEPT !.scheduled_jobs = [j \in 1..Len(@) |->
                            IF @[j].status = "pending" THEN [@[j] EXCEPT !.status = "cancelled"] ELSE @[j]]]
    /\ SetCall(i, "audit_cancel", "")
    /\ UNCHANGED <<now, ret, hist>>

\* The cancel_jobs_on_kill_switch audit row, and Ok(()) to the host.
SwitchAuditCancel(i) ==
    /\ calls[i].pc = "audit_cancel"
    /\ db' = insert_audit(db, "cancel_jobs_on_kill_switch", "scheduled_job", Null, [scope |-> "all_pending"], TRUE, "")
    /\ SetCall(i, "returned", "")
    /\ RunnerAnswer(i, TRUE, "", Null)
    /\ UNCHANGED <<now, hist>>

NextRunner ==
    \/ RunnerCall
    \/ \E enabled \in BOOLEAN : SwitchCall(enabled)
    \/ \E i \in 1..Len(calls) : RunnerKillSwitch(i)
    \/ \E i \in 1..Len(calls) : RunnerCountSkipped(i)
    \/ \E i \in 1..Len(calls) : RunnerSelectJobs(i)
    \/ \E i \in 1..Len(calls) : RunnerNextJob(i)
    \/ \E i \in 1..Len(calls) : RunnerAuditCommand(i)
    \/ \E i \in 1..Len(calls) : JobGetLead(i)
    \/ \E i \in 1..Len(calls) : JobValidateOutbound(i)
    \/ \E i \in 1..Len(calls) : JobInsertMessage(i)
    \/ \E i \in 1..Len(calls) : JobUpdateConversation(i)
    \/ \E i \in 1..Len(calls) : JobUpdateLead(i)
    \/ \E i \in 1..Len(calls) : JobAuditSend(i)
    \/ \E i \in 1..Len(calls) : JobClearNextAction(i)
    \/ \E i \in 1..Len(calls) : JobSetStatus(i)
    \/ \E i \in 1..Len(calls) : JobAudit(i)
    \/ \E i \in 1..Len(calls) : SwitchUpsert(i)
    \/ \E i \in 1..Len(calls) : SwitchAudit(i)
    \/ \E i \in 1..Len(calls) : SwitchCancelJobs(i)
    \/ \E i \in 1..Len(calls) : SwitchAuditCancel(i)

SpecRunner == InitRunner /\ [][NextRunner]_vars

(***************************************************************************)
(* C36: the kill switch turned on while run_due_jobs is in its loop.       *)
(***************************************************************************)
Started(i) == {calls[i].ran[p] : p \in 1..Len(calls[i].ran)}

\* Runner i passes the head of its loop.
AtLoopHead(i) == i \in Runners /\ calls[i].pc = "next_job" /\ calls[i].k <= Len(calls[i].jobs)

\* A step that appends an automated OUTBOUND row.
AutomatedInserted ==
    /\ Len(db'.messages) = Len(db.messages) + 1
    /\ db'.messages[Len(db'.messages)].direction = "OUTBOUND"
    /\ db'.messages[Len(db'.messages)].flags.automated

\* A step that sets a cancelled job to completed or failed.
CancelledOverwritten ==
    \E j \in 1..Len(db.scheduled_jobs) :
        /\ db.scheduled_jobs[j].status = "cancelled"
        /\ db'.scheduled_jobs[j].status \in {"completed", "failed"}

\* Every job the runner reaches with the switch on is counted in skipped, its handler
\* is not entered and nothing is written.
SkippedAtLoopHead ==
    \A i \in 1..Len(calls) :
        (AtLoopHead(i) /\ is_kill_switch_enabled(db) /\ calls'[i] # calls[i])
            => /\ calls'[i].counts = [calls[i].counts EXCEPT !.skipped = @ + 1]
               /\ calls'[i].k = calls[i].k + 1
               /\ calls'[i].pc = "next_job"
               /\ calls'[i].ran = calls[i].ran
               /\ db' = db

\* A runner sets the status of the jobs it started, of no other.
WritesOnlyStarted ==
    \A i \in 1..Len(calls) : \A j \in 1..Len(db.scheduled_jobs) :
        (i \in Runners /\ calls'[i] # calls[i] /\ db'.scheduled_jobs[j].status # db.scheduled_jobs[j].status)
            => j \in Started(i)

\* C36 (the part that holds): with the kill switch on, each job the runner has not yet
\* started is counted in skipped when the loop reaches it, its handler is not run, and
\* the runner leaves its status alone.
UnstartedJobsSkipped == [][SkippedAtLoopHead /\ WritesOnlyStarted]_vars

\* C36: once set_kill_switch(true) has taken effect, the jobs the runner has not yet
\* started are skipped and untouched, no job cancelled by the kill switch is afterwards
\* set to completed or failed, and no automated OUTBOUND is inserted.
KillSwitchStopsRunner ==
    [][/\ SkippedAtLoopHead
       /\ WritesOnlyStarted
       /\ ~CancelledOverwritten
       /\ is_kill_switch_enabled(db) => ~AutomatedInserted]_vars

(***************************************************************************)
(* C38: two run_due_jobs invocations, the kill switch off.                 *)
(***************************************************************************)
\* The invocations that entered the handler of job j.
StartedBy(j) == {i \in Runners : j \in Started(i)}

\* Runner i sets the status of a job whose status another invocation has set.
StatusOverwritten ==
    \E i \in Runners : \E other \in Runners \ {i} :
        /\ calls[i].pc = "set_status"
        /\ calls'[i].pc # "set_status"
        /\ JobIdOf(i) \in calls[other].wrote

\* C38 (the part that holds): when the second invocation starts after the first has
\* returned, no job's handler is entered twice and no status is written twice.
JobsRunOnceInSequence ==
    [][(\A i \in 1..Len(calls') : calls'[i].alone)
          => /\ \A j \in 1..Len(db'.scheduled_jobs) : Count({i \in 1..Len(calls') : j \in Started(i)'}) <= 1
             /\ ~StatusOverwritten]_vars

\* C38: with the kill switch off, whatever the interleaving of two run_due_jobs
\* invocations, the handler of each due pending job is entered at most once and a
\* status written by one invocation is not overwritten by the other.
JobsRunOnce ==
    [][Switches' = {}
          => /\ \A j \in 1..Len(db'.scheduled_jobs) : Count(StartedBy(j)') <= 1
             /\ ~StatusOverwritten]_vars

(***************************************************************************)
(* C37: what an inbound whose processing fails leaves behind.              *)
(***************************************************************************)
\* What the claim calls conversation progress, for lead l.
Progress(d, l) ==
    [state |-> d.conversations[l].state, offered_slots |-> d.conversations[l].offered_slots,
     status |-> d.leads[l].status, appointments |-> d.appointments, scheduled_jobs |-> d.scheduled_jobs]

\* This step ran simulate_inbound_sms and process_inbound_state_machine returned an error.
FailedInbound ==
    /\ CommandRan
    /\ ret'.cmd = "simulate_inbound_sms"
    /\ LeadExists(db, ret'.req.lead_id)
    /\ Trim(ret'.req.body) # << >>
    /\ ~ret'.ok

\* The step stored an outbound row with this body in conversation l.
Recorded(l, body) ==
    \E i \in NewOutbound : db'.messages[i].conversation_id = l /\ db'.messages[i].body = body

\* Conversation l enters state in this step.
Enters(l, state) ==
    /\ l \in 1..Len(db.conversations)
    /\ db.conversations[l].state # state
    /\ db'.conversations[l].state = state

NoReply(l, body) == NewOutbound = {}

\* The body names a slot of the offer stored on the conversation.
ValidChoice(l) ==
    /\ Normalized(ret'.req.body) \in {KwOne, KwTwo}
    /\ (IF Normalized(ret'.req.body) = KwOne THEN 1 ELSE 2) <= Len(db.conversations[l].offered_slots)

\* C37 as stated: an inbound whose processing fails leaves the conversation state,
\* offered_slots, lead.status, the appointments and the jobs as they were; a
\* conversation enters awaiting_time_choice only in a step that records the offer and
\* booked only in a step that records the confirmation.
InboundAllOrNothing ==
    [][/\ FailedInbound => Progress(db', ret'.req.lead_id) = Progress(db, ret'.req.lead_id)
       /\ \A l \in 1..Len(db.conversations) :
             /\ Enters(l, "awaiting_time_choice")
                    => Recorded(l, format_slot_offer(db'.conversations[l].offered_slots))
             /\ Enters(l, "booked")
                    => \E a \in 1..Len(db'.appointments) : Recorded(l, BookedReply(db'.appointments[a]))]_vars

\* C37: an inbound whose processing fails stores no reply and schedules no job, and
\* keeps what the state machine wrote before the refused reply.  After YES in
\* awaiting_yes with 2 slots generated the conversation and the lead are in
\* awaiting_time_choice with the 2 slots, no offer recorded; after a choice of a free
\* offered slot the appointment exists and the conversation and the lead are booked, no
\* confirmation recorded; after an invalid choice with 2 slots generated the new slots
\* and the increased repair_attempts are stored; after a stop keyword the lead is opted
\* out.  In every other case (stale conversation, chosen slot taken, fewer than 2
\* slots, any other body) state, offered_slots, lead.status and appointments are as
\* before the inbound.
FailedInboundKeepsEarlierWrites ==
    [][FailedInbound =>
          LET l == ret'.req.lead_id
              conversation == db.conversations[l]
              offered == generate_slot_choices(db, now, now)
          IN /\ NewOutbound = {}
             /\ db'.scheduled_jobs = db.scheduled_jobs
             /\ IF StopKeyword(ret'.req.body) THEN StopEffects(l)
                ELSE IF db.leads[l].opted_out \/ Stale(l) THEN Progress(db', l) = Progress(db, l)
                ELSE IF conversation.state = "awaiting_yes" /\ Normalized(ret'.req.body) \in {KwYes, KwY}
                        /\ Len(offered) = 2
                THEN YesEffects(NoReply) /\ db'.appointments = db.appointments
                ELSE IF conversation.state = "awaiting_time_choice" /\ ValidChoice(l) /\ ~ChosenSlotTaken
                THEN ChoiceEffects(NoReply)
                ELSE IF conversation.state = "awaiting_time_choice" /\ ~ValidChoice(l) /\ Len(offered) = 2
                THEN /\ db'.conversations[l].state = "awaiting_time_choice"
                     /\ db'.conversations[l].offered_slots = offered
                     /\ db'.conversations[l].repair_attempts = conversation.repair_attempts + 1
                     /\ db'.leads[l].status = db.leads[l].status
                     /\ db'.appointments = db.appointments
                ELSE Progress(db', l) = Progress(db, l)]_vars

\* A lead without consent answered YES: the command failed on the refused offer, and
\* the conversation awaits the choice between 2 stored slots with no outbound row.
AwaitingChoiceWithoutOffer ==
    /\ ret.cmd = "simulate_inbound_sms"
    /\ ~ret.ok
    /\ ret.err = ConsentError
    /\ Normalized(ret.req.body) = KwYes
    /\ db.conversations[ret.req.lead_id].state = "awaiting_time_choice"
    /\ Len(db.conversations[ret.req.lead_id].offered_slots) = 2
    /\ db.leads[ret.req.lead_id].status = "awaiting_time_choice"
    /\ OutboundOfLead(db, ret.req.lead_id) = {}

(***************************************************************************)
(* C39: the slots of the generator against the overlap check of the        *)
(* gateway, in one store state.                                            *)
(***************************************************************************)
\* The request the state machine makes of create_appointment for a slot.
SlotRequest(slot) == [lead_id |-> 1, start_at |-> slot.start_at, end_at |-> slot.end_at, status |-> "booked"]

\* The overlap check of validate_appointment counts appointment i against the slot.
BlockedBy(i, slot) == overlap_count([db EXCEPT !.appointments = <<db.appointments[i]>>], SlotRequest(slot)) > 0

\* Appointment i started more than a day before now: the generator does not load it.
StartedOverADayAgo(i) == SqlDatetime(db.appointments[i].start_at) < SqlDatetime(now - Days(SlotLookbackDays))

\* C39 as stated: whatever the booked appointments, every slot generate_slot_choices
\* returns passes the overlap check of create_appointment in the same store state.
GeneratedSlotsAccepted ==
    ret.cmd = "generate_slot_choices"
        => \A k \in 1..Len(ret.val) : overlap_count(db, SlotRequest(ret.val[k])) = 0

\* C39: every slot generate_slot_choices returns passes the overlap check of
\* create_appointment against the booked appointments that started at or after
\* now - 1 day, whatever their length; the only booked appointments the check can
\* hold against a returned slot are those that started more than a day ago, which
\* the generator does not load.
GeneratedSlotsAcceptedUnlessOld ==
    ret.cmd = "generate_slot_choices"
        => \A k \in 1..Len(ret.val) : \A i \in 1..Len(db.appointments) :
              BlockedBy(i, ret.val[k]) => StartedOverADayAgo(i)

\* Two slots were generated around a booked appointment that started within the last
\* day: the first starts 10 minutes after it ends, and the gateway accepts both.
SlotsGeneratedAfterBooking ==
    /\ ret.cmd = "generate_slot_choices"
    /\ Len(ret.val) = 2
    /\ \E i \in Booked(db) :
          /\ ~StartedOverADayAgo(i)
          /\ ret.val[1].start_at = db.appointments[i].end_at + Minutes(BufferMinutes)
    /\ \A k \in 1..2 : validate_appointment(db, SlotRequest(ret.val[k])) = ""

(***************************************************************************)
(* C40: lead.status against the conversation's state.                      *)
(***************************************************************************)
\* The leads that are not opted out.
ActiveLeads == {l \in 1..Len(db.leads) : ~db.leads[l].opted_out}

AppointmentsOf(l) == {a \in 1..Len(db.appointments) : db.appointments[a].lead_id = l}

\* C40 as stated: after any sequence of commands, a lead that is not opted out has
\* lead.status equal to its conversation's state, and lead.status = booked only with
\* a booked appointment of the lead.
LeadStatusIsConversationState ==
    \A l \in ActiveLeads :
        /\ db.leads[l].status = db.conversations[l].state
        /\ db.leads[l].status = "booked" => AppointmentsOf(l) \cap Booked(db) # {}

\* C40: after any sequence of commands, a lead that is not opted out has lead.status
\* equal to its conversation's state or booked; lead.status = booked only with an
\* appointment of the lead, of whatever status; and a conversation in booked has
\* lead.status = booked.
LeadStatusFollowsConversation ==
    \A l \in ActiveLeads :
        /\ db.leads[l].status \in {db.conversations[l].state, "booked"}
        /\ db.leads[l].status = "booked" => AppointmentsOf(l) # {}
        /\ db.conversations[l].state = "booked" => db.leads[l].status = "booked"

\* The agent booked an appointment with status cancelled for a lead that had not yet
\* answered: lead.status is booked, the conversation awaits YES, and the lead has no
\* booked appointment.
BookedByCancelledAppointment ==
    /\ ret.cmd = "agent_execute"
    /\ ret.req.action_type = "book_appointment"
    /\ ret.req.status = "cancelled"
    /\ ret.val.success
    /\ ret.req.lead_id \in ActiveLeads
    /\ db.leads[ret.req.lead_id].status = "booked"
    /\ db.conversations[ret.req.lead_id].state = "awaiting_yes"
    /\ AppointmentsOf(ret.req.lead_id) \cap Booked(db) = {}
    /\ AppointmentsOf(ret.req.lead_id) # {}

====
